---- MODULE Spec2Model ----
(***************************************************************************)
(* A model of sammcj/beatfinder's recommendation engine                    *)
(* (src/recommendation_engine.py): the RateLimiter, the caching LastFmClient,*)
(* the RecommendationEngine's aggregation over a worker pool, and the two  *)
(* JSON caches.                                                            *)
(*                                                                         *)
(* The specifications share the module's variables:                      *)
(*   RLSpec / RLFairSpec  threads calling RateLimiter.acquire()            *)
(*   CacheSpec            _load_cache and load_recommendations_cache over  *)
(*                        the possible contents of the two cache files     *)
(*   Spec                 one run of generate_recommendations              *)
(*   FnSpec               the classification, name and scoring functions,  *)
(*                        applied to arguments drawn from bounded sets     *)
(*   ManySpec             the scoring and refinement of a long candidate   *)
(*                        list                                             *)
(*   ReqSpec              threads calling LastFmClient._make_request       *)
(*   RecSpec              save and load of the recommendation cache under  *)
(*                        a configuration that changes between runs        *)
(* Each specification leaves the variables of the others at their initial  *)
(* values.                                                                 *)
(***************************************************************************)
EXTENDS Integers, Sequences, FiniteSets, TLC

VARIABLES
    \* ---- RateLimiter (src/recommendation_engine.py:42-61)
    rl_lock,          \* holder of RateLimiter.lock, or NoThread
    rl_since,         \* time.time() - last_request_time in ticks, saturating at MinIntervalTicks
    rl_pc,            \* each caller's position in acquire()
    rl_sleep,         \* each caller's remaining time.sleep() duration
    rl_calls,         \* number of acquire() calls each caller has started
    rl_grants,        \* history: number of updates of last_request_time so far
    rl_gap,           \* history: time between the last two updates of last_request_time
    rl_waited,        \* history: the caller of the last update had to sleep
    rl_sent,          \* number of session.get() calls each caller has begun
    rl_req_since,     \* history: time since the last session.get() began, saturating
    rl_reqs,          \* history: number of session.get() calls begun so far
    rl_req_gap,       \* history: time between the beginnings of the last two session.get()
    \* ---- LastFmClient and RecommendationEngine.generate_recommendations
    library,          \* RecommendationEngine.library_stats
    cache,            \* LastFmClient.cache["data"]: cache key -> stored result
    t_pc,             \* each fetch_similar task's position (one task per loved artist)
    t_similar,        \* each task's `similar` list as built so far
    t_i,              \* each task's index in `for artist in similar` (tags loop)
    t_result,         \* each finished task's future value
    t_fail,           \* each task: its artist.getsimilar request failed at transport level
    t_late,           \* history: each task's current call began after a failed call for its key ended
    m_pc,             \* the initiating thread's position in generate_recommendations
    m_order,          \* the futures as_completed has yielded so far, in order
    recommendations,  \* the candidate map, in dict insertion order
    completed,        \* generate_recommendations' `completed`
    failed,           \* generate_recommendations' `failed`
    scored,           \* scored_recommendations
    r_i,              \* index of the refinement loop over scored_recommendations[:100]
    r_pc,             \* position inside get_artist_info of the refinement loop
    r_late,           \* history: as t_late, for the get_artist_info call in progress
    h_decode,         \* history: some response could not be decoded
    h_fatal,          \* history: <<caller, key>> of every call that met an undecodable response
    h_failed,         \* history: keys of the finished calls whose request failed at transport level
    h_raced,          \* history: keys in h_failed written again by a call that had missed earlier
    h_lookups,        \* history: the names get_artist_info has been called for at line 526
    h_provisional,    \* history: scored_recommendations as line 522 left it
    h_late,           \* history: how the calls begun after a failed call for their key returned
    \* ---- the two cache files (_load_cache, load_recommendations_cache)
    now,                        \* datetime.now(), in ticks
    lastfm_cache_file,          \* content of CACHE_DIR / "lastfm_cache.json"
    recommendations_cache_file, \* content of CACHE_DIR / "recommendations_cache.json"
    client_cache,               \* LastFmClient.cache as _load_cache returned it
    lookup_out,                 \* how the last metadata call on client_cache ended
    load_out,                   \* how the last load_recommendations_cache call ended
    config,                     \* the options config.py read from the environment at import
    h_saved_config,             \* history: `config` of the run that wrote the recommendation cache
    \* ---- the functions checked on their own
    fn                          \* the last function applied: its name, arguments and result

rl_req_vars == <<rl_sent, rl_req_since, rl_reqs, rl_req_gap>>
rl_vars == <<rl_lock, rl_since, rl_pc, rl_sleep, rl_calls, rl_grants, rl_gap, rl_waited,
             rl_req_vars>>
task_vars == <<t_pc, t_similar, t_i, t_result, t_fail, t_late>>
main_vars == <<m_pc, m_order, recommendations, completed, failed, scored, r_i, r_pc, r_late>>
hist_vars == <<h_decode, h_fatal, h_failed, h_raced, h_late>>
rank_vars == <<h_lookups, h_provisional>>
eng_vars == <<library, cache, task_vars, main_vars, hist_vars, rank_vars>>
file_vars == <<now, lastfm_cache_file, recommendations_cache_file, client_cache,
               lookup_out, load_out, config, h_saved_config>>
fn_vars == <<fn>>
vars == <<rl_vars, eng_vars, file_vars, fn_vars>>

Min(a, b) == IF a <= b THEN a ELSE b
Max(a, b) == IF a >= b THEN a ELSE b

----------------------------------------------------------------------------
(***************************************************************************)
(* RateLimiter.  Time is counted in ticks relative to last_request_time:   *)
(* acquire() only reads the difference time.time() - last_request_time,    *)
(* and only compares it with min_interval, so the difference is kept       *)
(* saturated at MinIntervalTicks ("min_interval or more").                 *)
(* last_request_time starts at 0 and time.time() is seconds since 1970, so *)
(* the difference starts saturated.                                        *)
(***************************************************************************)
NumThreads == 2         \* concurrent callers of acquire()
MaxCalls == 2           \* acquire() calls per caller
MinIntervalTicks == 2   \* min_interval = 1.0 / max_per_second, in clock ticks

Threads == 1..NumThreads
NoThread == 0

RLInit ==
    /\ rl_lock = NoThread
    /\ rl_since = MinIntervalTicks
    /\ rl_pc = [t \in Threads |-> "idle"]
    /\ rl_sleep = [t \in Threads |-> 0]
    /\ rl_calls = [t \in Threads |-> 0]
    /\ rl_grants = 0
    /\ rl_gap = 0
    /\ rl_waited = FALSE
    /\ rl_sent = [t \in Threads |-> 0]
    /\ rl_req_since = MinIntervalTicks
    /\ rl_reqs = 0
    /\ rl_req_gap = 0

\* A caller enters acquire() and reaches `with self.lock`.
RLCall(t) ==
    /\ UNCHANGED <<eng_vars, file_vars, fn_vars, rl_req_vars>>
    /\ rl_pc[t] = "idle"
    /\ rl_calls[t] < MaxCalls
    /\ rl_calls' = [rl_calls EXCEPT ![t] = @ + 1]
    /\ rl_pc' = [rl_pc EXCEPT ![t] = "lock"]
    /\ UNCHANGED <<rl_lock, rl_since, rl_sleep, rl_grants, rl_gap, rl_waited>>

\* threading.Lock: the mutex can be taken only while nobody holds it.
LockFreeAlways == TRUE
LockFree == rl_lock = NoThread

\* `with self.lock:` entered.
RLLock(t) ==
    /\ UNCHANGED <<eng_vars, file_vars, fn_vars, rl_req_vars>>
    /\ rl_pc[t] = "lock"
    /\ LockFree
    /\ rl_lock' = t
    /\ rl_pc' = [rl_pc EXCEPT ![t] = "read"]
    /\ UNCHANGED <<rl_since, rl_sleep, rl_calls, rl_grants, rl_gap, rl_waited>>

\* sleep_time = self.min_interval - time_since_last
SleepTime(time_since_last) == MinIntervalTicks - time_since_last

\* current_time = time.time(); time_since_last = current_time - last_request_time;
\* if time_since_last < min_interval: time.sleep(sleep_time) is entered.
RLRead(t) ==
    /\ UNCHANGED <<eng_vars, file_vars, fn_vars, rl_req_vars>>
    /\ rl_pc[t] = "read"
    /\ IF rl_since < MinIntervalTicks
         THEN /\ rl_sleep' = [rl_sleep EXCEPT ![t] = Max(0, SleepTime(rl_since))]
              /\ rl_pc' = [rl_pc EXCEPT ![t] = "sleep"]
         ELSE /\ rl_sleep' = [rl_sleep EXCEPT ![t] = 0]
              /\ rl_pc' = [rl_pc EXCEPT ![t] = "update"]
    /\ UNCHANGED <<rl_lock, rl_since, rl_calls, rl_grants, rl_gap, rl_waited>>

\* time.sleep(sleep_time) returns: never before sleep_time has passed, possibly later.
RLWake(t) ==
    /\ UNCHANGED <<eng_vars, file_vars, fn_vars, rl_req_vars>>
    /\ rl_pc[t] = "sleep"
    /\ rl_sleep[t] = 0
    /\ rl_pc' = [rl_pc EXCEPT ![t] = "slept"]
    /\ UNCHANGED <<rl_lock, rl_since, rl_sleep, rl_calls, rl_grants, rl_gap, rl_waited>>

\* self.last_request_time = time.time(): the acquisition is granted.
RLUpdate(t) ==
    /\ UNCHANGED <<eng_vars, file_vars, fn_vars, rl_req_vars>>
    /\ rl_pc[t] \in {"update", "slept"}
    /\ rl_gap' = rl_since
    /\ rl_since' = 0
    /\ rl_grants' = Min(rl_grants + 1, 2)
    /\ rl_waited' = (rl_pc[t] = "slept")
    /\ rl_pc' = [rl_pc EXCEPT ![t] = "release"]
    /\ UNCHANGED <<rl_lock, rl_sleep, rl_calls>>

\* what leaving `with self.lock` does to the mutex
KeepLock(t) == rl_lock
LockAfterRelease(t) == IF rl_lock = t THEN NoThread ELSE rl_lock

\* the `with` block is left and acquire() returns.
RLRelease(t) ==
    /\ UNCHANGED <<eng_vars, file_vars, fn_vars, rl_req_vars>>
    /\ rl_pc[t] = "release"
    /\ rl_lock' = LockAfterRelease(t)
    /\ rl_pc' = [rl_pc EXCEPT ![t] = "idle"]
    /\ UNCHANGED <<rl_since, rl_sleep, rl_calls, rl_grants, rl_gap, rl_waited>>

\* One clock tick passes: time.time() grows, every running sleep gets shorter.
ClockTick ==
    /\ UNCHANGED <<eng_vars, file_vars, fn_vars>>
    /\ rl_since' = Min(rl_since + 1, MinIntervalTicks)
    /\ rl_sleep' = [t \in Threads |->
                      IF rl_pc[t] = "sleep" THEN Max(0, rl_sleep[t] - 1) ELSE rl_sleep[t]]
    /\ UNCHANGED <<rl_lock, rl_pc, rl_calls, rl_grants, rl_gap, rl_waited>>

\* a tick while the threads call acquire() only
RLTick == ClockTick /\ UNCHANGED rl_req_vars

RLThread(t) ==
    \/ RLCall(t)
    \/ RLLock(t)
    \/ RLRead(t)
    \/ RLWake(t)
    \/ RLUpdate(t)
    \/ RLRelease(t)

RLNext ==
    \/ \E t \in Threads : RLThread(t)
    \/ RLTick

----------------------------------------------------------------------------
(***************************************************************************)
(* Artist names are sequences of one-character strings, so that lower(),   *)
(* the quote stripping, the whitespace collapsing and the splitting on     *)
(* collaboration separators are computed character by character.           *)
(***************************************************************************)
\* str.lower() on one character of the model's alphabet
LowerChar(c) ==
    CASE c = "N" -> "n"
      [] c = "B" -> "b"
      [] c = "D" -> "d"
      [] c = "X" -> "x"
      [] c = "F" -> "f"
      [] OTHER -> c

\* str.lower()
LowerName(s) == [i \in 1..Len(s) |-> LowerChar(s[i])]

\* str.replace(c, '') for a one-character c
RECURSIVE RemoveChar(_, _)
RemoveChar(s, c) ==
    IF s = <<>> THEN <<>>
    ELSE IF Head(s) = c THEN RemoveChar(Tail(s), c)
    ELSE <<Head(s)>> \o RemoveChar(Tail(s), c)

\* str.split() with no argument: the maximal runs of non-whitespace characters
RECURSIVE SplitWs(_, _)
SplitWs(s, cur) ==
    IF s = <<>> THEN (IF cur = <<>> THEN <<>> ELSE <<cur>>)
    ELSE IF Head(s) = " "
         THEN (IF cur = <<>> THEN <<>> ELSE <<cur>>) \o SplitWs(Tail(s), <<>>)
         ELSE SplitWs(Tail(s), Append(cur, Head(s)))

\* ' '.join(words)
RECURSIVE JoinSp(_)
JoinSp(words) ==
    IF words = <<>> THEN <<>>
    ELSE IF Len(words) = 1 THEN words[1]
    ELSE words[1] \o <<" ">> \o JoinSp(Tail(words))

\* RecommendationEngine._normalise_artist_name.  The third and fourth replace() of
\* the source remove the text , '').replace( which holds the character ' and so
\* cannot occur once every ' has been removed: they change nothing.
Normalise(name) ==
    JoinSp(SplitWs(RemoveChar(RemoveChar(LowerName(name), "\""), "'"), <<>>))

IsPrefix(p, s) == Len(p) <= Len(s) /\ SubSeq(s, 1, Len(p)) = p

\* str.split(sep) for a non-empty separator
RECURSIVE SplitOn(_, _, _)
SplitOn(s, sep, cur) ==
    IF s = <<>> THEN <<cur>>
    ELSE IF IsPrefix(sep, s)
         THEN <<cur>> \o SplitOn(SubSeq(s, Len(sep) + 1, Len(s)), sep, <<>>)
         ELSE SplitOn(Tail(s), sep, Append(cur, Head(s)))

\* new_parts.extend(part.split(sep)) for every part
RECURSIVE SplitAll(_, _)
SplitAll(parts, sep) ==
    IF parts = <<>> THEN <<>>
    ELSE SplitOn(Head(parts), sep, <<>>) \o SplitAll(Tail(parts), sep)

\* str.strip()
RECURSIVE Strip(_)
Strip(s) ==
    IF s = <<>> THEN <<>>
    ELSE IF Head(s) = " " THEN Strip(Tail(s))
    ELSE IF s[Len(s)] = " " THEN Strip(SubSeq(s, 1, Len(s) - 1))
    ELSE s

\* the separators without the spaces around them
SeparatorsBare ==
    << <<"&">>,
       <<",">>,
       <<"f", "e", "a", "t", ".">>,
       <<"f", "t", ".">>,
       <<"f", "e", "a", "t", "u", "r", "i", "n", "g">> >>

\* separators = [' & ', ', ', ' feat. ', ' ft. ', ' featuring ']
Separators ==
    << <<" ", "&", " ">>,
       <<",", " ">>,
       <<" ", "f", "e", "a", "t", ".", " ">>,
       <<" ", "f", "t", ".", " ">>,
       <<" ", "f", "e", "a", "t", "u", "r", "i", "n", "g", " ">> >>

RECURSIVE SplitBySeparators(_, _)
SplitBySeparators(parts, seps) ==
    IF seps = <<>> THEN parts
    ELSE SplitBySeparators(SplitAll(parts, Head(seps)), Tail(seps))

Range(f) == {f[i] : i \in DOMAIN f}

\* The parts _contains_known_artist compares with known_artists.
CollabParts(artist_name) ==
    {Strip(p) : p \in Range(SplitBySeparators(<<Normalise(artist_name)>>, Separators))}
        \ {<<>>}

----------------------------------------------------------------------------
(***************************************************************************)
(* Configuration (src/config.py), at its defaults.                         *)
(***************************************************************************)
KNOWN_ARTIST_MIN_PLAY_COUNT == 3
KNOWN_ARTIST_MIN_TRACKS == 5
LOVED_PLAY_COUNT_THRESHOLD == 50
LOVED_MIN_TRACK_RATING == 4
LOVED_MIN_ARTIST_PLAYS == 10
LIB_DISLIKED_MIN_TRACK_COUNT == 2
LAST_MONTHS_FILTER == 0
ENABLE_TAG_SIMILARITY == FALSE
ENABLE_PLAY_FREQUENCY_WEIGHTING == FALSE
REC_TAG_BLACKLIST == {}
REC_TAG_BLACKLIST_TOP_N_TAGS == 0

\* the library artists of the model, in the order of library_stats.items()
nN == <<"N">>
nB == <<"B">>
nX == <<"X">>
LibOrder == <<nN, nB, nX>>
LibNames == Range(LibOrder)

\* ArtistStats the library parser can produce.  last_played is the age of the last
\* play in days, or -1 when the library records none.
StatFrequent ==
    [play_count |-> 60, track_count |-> 6, loved |-> FALSE, loved_track_count |-> 0,
     disliked_track_count |-> 0, rating |-> 0, last_played |-> 1]
StatLovedFlag ==
    [play_count |-> 0, track_count |-> 1, loved |-> TRUE, loved_track_count |-> 1,
     disliked_track_count |-> 0, rating |-> 100, last_played |-> -1]
StatDisliked ==
    [play_count |-> 1, track_count |-> 1, loved |-> FALSE, loved_track_count |-> 0,
     disliked_track_count |-> 2, rating |-> 0, last_played |-> 1]
StatRare ==
    [play_count |-> 1, track_count |-> 1, loved |-> FALSE, loved_track_count |-> 0,
     disliked_track_count |-> 0, rating |-> 0, last_played |-> 1]

\* the libraries of the model: N and B can be loved artists, X never is
Libraries ==
    {lib \in [LibNames -> {StatFrequent, StatLovedFlag, StatDisliked, StatRare}] :
        /\ lib[nN] \in {StatFrequent, StatRare}
        /\ lib[nB] \in {StatLovedFlag, StatFrequent}
        /\ lib[nX] \in {StatDisliked, StatRare}}

\* RecommendationEngine.__init__: self.known_artists
IsKnownStats(stats) ==
    \/ stats.play_count >= KNOWN_ARTIST_MIN_PLAY_COUNT
    \/ stats.track_count >= KNOWN_ARTIST_MIN_TRACKS

KnownArtists(lib) == {Normalise(a) : a \in {b \in DOMAIN lib : IsKnownStats(lib[b])}}

\* RecommendationEngine.__init__: self.disliked_artists
IsDislikedStats(stats) ==
    /\ stats.disliked_track_count >= LIB_DISLIKED_MIN_TRACK_COUNT
    /\ stats.loved_track_count = 0

DislikedArtists(lib) == {Normalise(a) : a \in {b \in DOMAIN lib : IsDislikedStats(lib[b])}}

\* RecommendationEngine._contains_known_artist
ContainsKnownArtist(lib, artist_name) ==
    \E part \in CollabParts(artist_name) : part \in KnownArtists(lib)

\* get_loved_artists with the rating condition left out
IsLovedSeedNoRating(stats) ==
    /\ ~IsDislikedStats(stats)
    /\ (stats.loved \/ stats.play_count >= LOVED_PLAY_COUNT_THRESHOLD)

\* lines 283-284 and 302-304 with a cutoff of last_months_filter days
PassesCutoffDays(last_months_filter, age) ==
    ~(last_months_filter > 0 /\ age >= 0 /\ age > last_months_filter)

\* lines 283-284 and 302-304: cutoff_date = datetime.now() - timedelta(days=N * 30),
\* and an artist with a last_played before it is skipped.  age is datetime.now()
\* minus last_played in days, -1 when last_played is None.
PassesCutoff(last_months_filter, age) ==
    ~(last_months_filter > 0 /\ age >= 0 /\ age > last_months_filter * 30)

\* datetime.now() - stats["last_played"] in a run `later` days after the library
\* was read
AgeAt(stats, later) == IF stats.last_played < 0 THEN -1 ELSE stats.last_played + later

\* lines 286-305: whether one artist is appended to loved, under a cutoff of
\* last_months_filter months in a run `later` days after the library was read
IsLovedSeedAt(stats, last_months_filter, later) ==
    /\ ~IsDislikedStats(stats)
    /\ \/ stats.loved
       \/ stats.play_count >= LOVED_PLAY_COUNT_THRESHOLD
       \/ /\ stats.rating >= LOVED_MIN_TRACK_RATING * 20
          /\ stats.play_count >= LOVED_MIN_ARTIST_PLAYS
    /\ PassesCutoff(last_months_filter, AgeAt(stats, later))

\* RecommendationEngine.get_loved_artists: whether one artist is appended to loved
IsLovedSeed(stats) == IsLovedSeedAt(stats, LAST_MONTHS_FILTER, 0)

RECURSIVE FilterSeq(_, _)
FilterSeq(seq, keep) ==
    IF seq = <<>> THEN <<>>
    ELSE IF Head(seq) \in keep THEN <<Head(seq)>> \o FilterSeq(Tail(seq), keep)
    ELSE FilterSeq(Tail(seq), keep)

\* RecommendationEngine.get_loved_artists over a library whose items() come in `order`
LovedIn(order, lib) == FilterSeq(order, {a \in DOMAIN lib : IsLovedSeed(lib[a])})

\* RecommendationEngine.get_loved_artists
GetLovedArtists(lib) == LovedIn(LibOrder, lib)

\* RecommendationEngine.get_loved_artists over a library whose items() come in
\* `order`, under a cutoff of last_months_filter months, `later` days after the
\* library was read
LovedAt(order, lib, last_months_filter, later) ==
    FilterSeq(order, {a \in DOMAIN lib : IsLovedSeedAt(lib[a], last_months_filter, later)})

----------------------------------------------------------------------------
(***************************************************************************)
(* LastFmClient: what the network can answer.  A match score is counted in *)
(* tenths (9 stands for 0.9).                                              *)
(***************************************************************************)
PoolSize == 2           \* worker threads of the ThreadPoolExecutor (MAX_CONCURRENT_REQUESTS)
TOP_REFINE == 100       \* scored_recommendations[:100]

nD == <<"D">>
nd == <<"d">>
nn == <<"n">>
nND == <<"N", " ", "&", " ", "D">>
nxq == <<"x", "'">>

\* the artists of an artist.getsimilar answer, as get_similar_artists builds them
SimilarResponses ==
    { << [name |-> nD, match |-> 9, listeners |-> 500000],
         [name |-> nd, match |-> 5, listeners |-> 3] >>,
      << [name |-> nD, match |-> 7, listeners |-> 0],
         [name |-> nxq, match |-> 5, listeners |-> 20] >>,
      << [name |-> nND, match |-> 7, listeners |-> 3],
         [name |-> nn, match |-> 5, listeners |-> 20] >> }

\* the tag names of an artist.gettoptags answer
TagResponses == { <<"rock">> }

\* the stats.listeners of an artist.getinfo answer
InfoListeners == {0, 2000000}

MainCaller == <<"main">>

\* a cache key built from the normalised name
CacheKeyNormalised(method, artist_name) == <<method, Normalise(artist_name)>>

\* cache_key = f"<method>_{artist_name.lower()}"
CacheKey(method, artist_name) == <<method, LowerName(artist_name)>>

NoInfo == [present |-> FALSE, listeners |-> 0]

\* whether a stored result is the result of a failed request: [] or {}
IsEmptyResult(key, value) ==
    IF key[1] = "info" THEN ~value.present ELSE value = <<>>

\* self.cache["data"][cache_key] = result
StoreAlways(key, value) == TRUE
StoreUnlessEmpty(key, value) == ~IsEmptyResult(key, value)
Stores(key, value) == StoreAlways(key, value)

CacheWrite(c, key, value) ==
    IF Stores(key, value)
    THEN [k \in DOMAIN c \cup {key} |-> IF k = key THEN value ELSE c[k]]
    ELSE c

Seeds == Range(GetLovedArtists(library))
Finished(s) == t_pc[s] \in {"done", "raised", "exit"}
Running(s) == t_pc[s] \in {"simCheck", "simReq", "tagCheck", "tagReq", "simWrite"}

\* history: a call that began after a failed call for its key had ended returns `value`
LateReturn(late, key, value) ==
    IF ~late THEN h_late
    ELSE h_late \cup {IF IsEmptyResult(key, value) THEN "empty"
                      ELSE IF key \in h_raced THEN "raced" ELSE "changed"}

\* history: a write to key
NoteWrite(key) ==
    h_raced' = IF key \in h_failed THEN h_raced \cup {key} ELSE h_raced

----------------------------------------------------------------------------
(***************************************************************************)
(* The worker pool: fetch_similar(artist) = get_similar_artists(artist).   *)
(***************************************************************************)
\* the place of a loved artist in the submission order
SeedIndex(s) ==
    CHOOSE i \in 1..Len(GetLovedArtists(library)) : GetLovedArtists(library)[i] = s

\* A free worker thread takes the oldest queued work item.
TaskStart(s) ==
    /\ UNCHANGED <<rl_vars, file_vars, fn_vars, rank_vars>>
    /\ t_pc[s] = "queued"
    /\ Cardinality({x \in Seeds : Running(x)}) < PoolSize
    /\ \A x \in Seeds : t_pc[x] = "queued" => SeedIndex(s) <= SeedIndex(x)
    /\ t_pc' = [t_pc EXCEPT ![s] = "simCheck"]
    /\ UNCHANGED <<library, cache, t_similar, t_i, t_result, t_fail, t_late,
                   main_vars, hist_vars>>

\* get_similar_artists, lines 126-130: the cache lookup under cache_lock
SimCheck(s) ==
    LET key == CacheKey("similar", s) IN
    /\ UNCHANGED <<rl_vars, file_vars, fn_vars, rank_vars>>
    /\ t_pc[s] = "simCheck"
    /\ IF key \in DOMAIN cache
         THEN /\ t_result' = [t_result EXCEPT ![s] = cache[key]]
              /\ t_pc' = [t_pc EXCEPT ![s] = "done"]
              /\ h_late' = LateReturn(key \in h_failed, key, cache[key])
              /\ UNCHANGED t_late
         ELSE /\ t_pc' = [t_pc EXCEPT ![s] = "simReq"]
              /\ t_late' = [t_late EXCEPT ![s] = key \in h_failed]
              /\ UNCHANGED <<t_result, h_late>>
    /\ UNCHANGED <<library, cache, t_similar, t_i, t_fail, main_vars,
                   h_decode, h_fatal, h_failed, h_raced>>

\* the position after `similar` has been built, or after one artist got its tags
AfterEntry(s, n, i) == IF i < n THEN "tagCheck" ELSE "simWrite"

\* get_similar_artists, lines 132-147: _make_request and the building of `similar`
SimReq(s) ==
    /\ UNCHANGED <<rl_vars, file_vars, fn_vars, rank_vars>>
    /\ t_pc[s] = "simReq"
    /\ \/ \E resp \in SimilarResponses :
             /\ t_similar' = [t_similar EXCEPT ![s] =
                                [i \in 1..Len(resp) |->
                                    [name |-> resp[i].name, match |-> resp[i].match,
                                     listeners |-> resp[i].listeners, tags |-> <<>>]]]
             /\ t_i' = [t_i EXCEPT ![s] = 1]
             /\ t_pc' = [t_pc EXCEPT ![s] = AfterEntry(s, Len(resp), 0)]
             /\ UNCHANGED <<t_fail, h_decode, h_fatal>>
       \* requests.exceptions.RequestException: data = {}, similar = []
       \/ /\ t_similar' = [t_similar EXCEPT ![s] = <<>>]
          /\ t_fail' = [t_fail EXCEPT ![s] = TRUE]
          /\ t_pc' = [t_pc EXCEPT ![s] = "simWrite"]
          /\ UNCHANGED <<t_i, h_decode, h_fatal>>
       \* json.JSONDecodeError: sys.exit(1) raises SystemExit in the worker
       \/ /\ t_pc' = [t_pc EXCEPT ![s] = "exit"]
          /\ h_decode' = TRUE
          /\ h_fatal' = h_fatal \cup {<<s, CacheKey("similar", s)>>}
          /\ UNCHANGED <<t_similar, t_i, t_fail>>
       \* a decoded answer of an unexpected shape: float() or .get raises
       \/ /\ t_pc' = [t_pc EXCEPT ![s] = "raised"]
          /\ UNCHANGED <<t_similar, t_i, t_fail, h_decode, h_fatal>>
    /\ UNCHANGED <<library, cache, t_result, t_late, main_vars,
                   h_failed, h_raced, h_late>>

SetTags(similar, i, tags) == [similar EXCEPT ![i].tags = tags]

\* get_artist_tags, lines 160-164, called at line 150 for similar[t_i]
TagCheck(s) ==
    LET key == CacheKey("tags", t_similar[s][t_i[s]].name) IN
    /\ UNCHANGED <<rl_vars, file_vars, fn_vars, rank_vars>>
    /\ t_pc[s] = "tagCheck"
    /\ IF key \in DOMAIN cache
         THEN /\ t_similar' = [t_similar EXCEPT ![s] = SetTags(@, t_i[s], cache[key])]
              /\ t_i' = [t_i EXCEPT ![s] = @ + 1]
              /\ t_pc' = [t_pc EXCEPT ![s] = AfterEntry(s, Len(t_similar[s]), t_i[s])]
              /\ h_late' = LateReturn(key \in h_failed, key, cache[key])
              /\ UNCHANGED t_late
         ELSE /\ t_pc' = [t_pc EXCEPT ![s] = "tagReq"]
              /\ t_late' = [t_late EXCEPT ![s] = key \in h_failed]
              /\ UNCHANGED <<t_similar, t_i, h_late>>
    /\ UNCHANGED <<library, cache, t_result, t_fail, main_vars,
                   h_decode, h_fatal, h_failed, h_raced>>

\* get_artist_tags, lines 166-182: _make_request, the cache write, the return
TagFetch(s) ==
    LET key == CacheKey("tags", t_similar[s][t_i[s]].name) IN
    /\ UNCHANGED <<rl_vars, file_vars, fn_vars, rank_vars>>
    /\ t_pc[s] = "tagReq"
    /\ \/ \E tags \in TagResponses \cup {<<>>} :
             /\ cache' = CacheWrite(cache, key, tags)
             /\ NoteWrite(key)
             \* tags = <<>> also stands for the RequestException: data = {}, tags = []
             /\ h_failed' = IF tags = <<>> THEN h_failed \cup {key} ELSE h_failed
             /\ t_similar' = [t_similar EXCEPT ![s] = SetTags(@, t_i[s], tags)]
             /\ t_i' = [t_i EXCEPT ![s] = @ + 1]
             /\ t_pc' = [t_pc EXCEPT ![s] = AfterEntry(s, Len(t_similar[s]), t_i[s])]
             /\ UNCHANGED <<h_decode, h_fatal>>
       \* json.JSONDecodeError: sys.exit(1)
       \/ /\ t_pc' = [t_pc EXCEPT ![s] = "exit"]
          /\ h_decode' = TRUE
          /\ h_fatal' = h_fatal \cup {<<s, key>>}
          /\ UNCHANGED <<cache, t_similar, t_i, h_failed, h_raced>>
    /\ UNCHANGED <<library, t_result, t_fail, t_late, main_vars, h_late>>

\* get_similar_artists, lines 152-156: the cache write and the return
SimWrite(s) ==
    LET key == CacheKey("similar", s) IN
    /\ UNCHANGED <<rl_vars, file_vars, fn_vars, rank_vars>>
    /\ t_pc[s] = "simWrite"
    /\ cache' = CacheWrite(cache, key, t_similar[s])
    /\ NoteWrite(key)
    /\ h_failed' = IF t_fail[s] THEN h_failed \cup {key} ELSE h_failed
    /\ t_result' = [t_result EXCEPT ![s] = t_similar[s]]
    /\ t_pc' = [t_pc EXCEPT ![s] = "done"]
    /\ UNCHANGED <<library, t_similar, t_i, t_fail, t_late, main_vars,
                   h_decode, h_fatal, h_late>>

----------------------------------------------------------------------------
(***************************************************************************)
(* RecommendationEngine.generate_recommendations on the initiating thread. *)
(***************************************************************************)
\* lines 418-435: the filters a similar artist passes before it is merged
PassesFiltersNoDisliked(lib, name) ==
    /\ Normalise(name) \notin KnownArtists(lib)
    /\ ~ContainsKnownArtist(lib, name)
PassesFilters(lib, name) ==
    /\ Normalise(name) \notin KnownArtists(lib)
    /\ ~ContainsKnownArtist(lib, name)
    /\ Normalise(name) \notin DislikedArtists(lib)
    /\ ~(name \in DOMAIN lib /\ IsKnownStats(lib[name]))

\* lines 388-394: the defaultdict's default value
NewCandidate(name) ==
    [name |-> name, recommended_by |-> <<>>, recommender_weights |-> <<>>,
     listeners |-> 0, tags |-> {}, match_scores |-> <<>>]

\* lines 437-444: one similar artist merged into its candidate
UpdateCandidateFirstMatch(lib, data, seed, e) ==
    [data EXCEPT !.recommended_by = Append(@, seed),
                 !.match_scores = IF @ = <<>> THEN <<e.match>> ELSE @,
                 !.listeners = e.listeners,
                 !.tags = @ \cup Range(e.tags)]
UpdateCandidateLastTags(lib, data, seed, e) ==
    [data EXCEPT !.recommended_by = Append(@, seed),
                 !.match_scores = Append(@, e.match),
                 !.listeners = e.listeners,
                 !.tags = Range(e.tags)]
UpdateCandidate(lib, data, seed, e) ==
    [data EXCEPT !.recommended_by = Append(@, seed),
                 !.match_scores = Append(@, e.match),
                 !.listeners = e.listeners,
                 !.tags = @ \cup Range(e.tags),
                 !.recommender_weights =
                     IF ENABLE_PLAY_FREQUENCY_WEIGHTING
                     THEN Append(@, lib[seed].play_count) ELSE @]

\* the position of a name in the candidate map, 0 when it is no key
IndexOf(recs, name) ==
    IF \E i \in 1..Len(recs) : recs[i].name = name
    THEN CHOOSE i \in 1..Len(recs) : recs[i].name = name
    ELSE 0

\* lines 416-444: the body of `for sim_artist in similar`
MergeEntry(lib, recs, seed, e) ==
    IF ~PassesFilters(lib, e.name) THEN recs
    ELSE IF IndexOf(recs, e.name) = 0
         THEN Append(recs, UpdateCandidate(lib, NewCandidate(e.name), seed, e))
         ELSE [recs EXCEPT ![IndexOf(recs, e.name)] = UpdateCandidate(lib, @, seed, e)]

\* lines 416-444: `for sim_artist in similar`
RECURSIVE MergeResult(_, _, _, _)
MergeResult(lib, recs, seed, similar) ==
    IF similar = <<>> THEN recs
    ELSE MergeResult(lib, MergeEntry(lib, recs, seed, Head(similar)), seed, Tail(similar))

\* lines 406-447: what future.result() does inside try / except Exception
ResultKindUncaught(s) ==
    IF t_pc[s] = "done" THEN "value" ELSE "propagates"
ResultKindCatchAll(s) ==
    IF t_pc[s] = "done" THEN "value" ELSE "caught"
ResultKind(s) ==
    CASE t_pc[s] = "done" -> "value"
      [] t_pc[s] = "raised" -> "caught"
      [] t_pc[s] = "exit" -> "propagates"

-----------------------------------------------------------------------------
(***************************************************************************)
(* Exact arithmetic for the scores.  The source computes with floats; the  *)
(* model computes the same expressions over the non-negative rationals,    *)
(* numerator and denominator being naturals of any size, so no product     *)
(* leaves the range of 32-bit integers.                                    *)
(***************************************************************************)
\* a natural as its digits in base 10000, least significant first; 0 is <<>>
RECURSIVE BigOfInt(_)
BigOfInt(n) == IF n = 0 THEN <<>> ELSE <<n % 10000>> \o BigOfInt(n \div 10000)

\* drop the zero digits at the most significant end
RECURSIVE BigTrim(_)
BigTrim(a) ==
    IF a = <<>> THEN <<>>
    ELSE IF a[Len(a)] = 0 THEN BigTrim(SubSeq(a, 1, Len(a) - 1))
    ELSE a

RECURSIVE BigAddC(_, _, _)
BigAddC(a, b, c) ==
    IF a = <<>> /\ b = <<>> THEN (IF c = 0 THEN <<>> ELSE <<c>>)
    ELSE LET x == IF a = <<>> THEN 0 ELSE Head(a)
             y == IF b = <<>> THEN 0 ELSE Head(b)
             t == x + y + c
         IN  <<t % 10000>> \o BigAddC(IF a = <<>> THEN <<>> ELSE Tail(a),
                                      IF b = <<>> THEN <<>> ELSE Tail(b),
                                      t \div 10000)

BigAdd(a, b) == BigAddC(a, b, 0)

\* a - b for a >= b
RECURSIVE BigSubB(_, _, _)
BigSubB(a, b, borrow) ==
    IF a = <<>> THEN <<>>
    ELSE LET y == IF b = <<>> THEN 0 ELSE Head(b)
             t == Head(a) - y - borrow
         IN  <<IF t < 0 THEN t + 10000 ELSE t>>
                 \o BigSubB(Tail(a), IF b = <<>> THEN <<>> ELSE Tail(b),
                            IF t < 0 THEN 1 ELSE 0)

BigSub(a, b) == BigTrim(BigSubB(a, b, 0))

\* a * d for one digit d
RECURSIVE BigMulDigit(_, _, _)
BigMulDigit(a, d, c) ==
    IF a = <<>> THEN (IF c = 0 THEN <<>> ELSE <<c>>)
    ELSE LET t == Head(a) * d + c
         IN  <<t % 10000>> \o BigMulDigit(Tail(a), d, t \div 10000)

RECURSIVE BigMul(_, _)
BigMul(a, b) ==
    IF a = <<>> \/ b = <<>> THEN <<>>
    ELSE LET rest == BigMul(a, Tail(b))
         IN  BigAdd(BigTrim(BigMulDigit(a, Head(b), 0)),
                    IF rest = <<>> THEN <<>> ELSE <<0>> \o rest)

\* a < b: fewer digits, or the same number and smaller at the first difference
\* from the most significant end
RECURSIVE BigLess(_, _)
BigLess(a, b) ==
    IF Len(a) # Len(b) THEN Len(a) < Len(b)
    ELSE IF a = <<>> THEN FALSE
    ELSE IF a[Len(a)] # b[Len(b)] THEN a[Len(a)] < b[Len(b)]
    ELSE BigLess(SubSeq(a, 1, Len(a) - 1), SubSeq(b, 1, Len(b) - 1))

\* the rational n / d
Rat(n, d) == [num |-> BigOfInt(n), den |-> BigOfInt(d)]

RatLess(x, y) == BigLess(BigMul(x.num, y.den), BigMul(y.num, x.den))
RatEq(x, y) == BigMul(x.num, y.den) = BigMul(y.num, x.den)
RatLeq(x, y) == RatLess(x, y) \/ RatEq(x, y)

RatAdd(x, y) ==
    [num |-> BigAdd(BigMul(x.num, y.den), BigMul(y.num, x.den)),
     den |-> BigMul(x.den, y.den)]

RatMul(x, y) == [num |-> BigMul(x.num, y.num), den |-> BigMul(x.den, y.den)]

\* a value below zero: no score or weight of the source is one for a rarity
\* preference between 1 and 15; it compares as neither above nor below anything
BelowZero == [num |-> <<>>, den |-> <<>>]

RatSub(x, y) ==
    IF RatLess(x, y) \/ x.den = <<>> \/ y.den = <<>> THEN BelowZero
    ELSE [num |-> BigSub(BigMul(x.num, y.den), BigMul(y.num, x.den)),
          den |-> BigMul(x.den, y.den)]

RatZero == Rat(0, 1)
RatOne == Rat(1, 1)

\* config.py lines 46-51: the range of RARITY_PREFERENCE
MIN_RARITY_PREFERENCE == 1
MAX_RARITY_PREFERENCE == 15
RarityPrefRange == MIN_RARITY_PREFERENCE..MAX_RARITY_PREFERENCE

\* line 504: rarity_weight = 0.1 + (rarity_pref - 1) * 0.4 / 14
RarityWeight(rarity_pref) == RatAdd(Rat(1, 10), Rat((rarity_pref - 1) * 4, 140))

\* line 505 with the step of line 504
FrequencyWeightSteep(rarity_pref) == RatSub(Rat(1, 2), Rat((rarity_pref - 1) * 4, 140))

\* line 505: frequency_weight = 0.5 - (rarity_pref - 1) * 0.15 / 14
FrequencyWeight(rarity_pref) == RatSub(Rat(1, 2), Rat((rarity_pref - 1) * 15, 1400))

\* line 506 with the rarity weight left out
MatchWeightOfFrequency(rarity_pref) == RatSub(RatOne, FrequencyWeight(rarity_pref))

\* line 506: match_weight = 1.0 - rarity_weight - frequency_weight
MatchWeight(rarity_pref) ==
    RatSub(RatSub(RatOne, RarityWeight(rarity_pref)), FrequencyWeight(rarity_pref))

\* line 484: listeners = data["listeners"] or 1
ListenersOr1(listeners) == IF listeners = 0 THEN 1 ELSE listeners

\* lines 485 and 529 without the 1 of the denominator
RarityScoreNoOne(listeners) == Rat(1000000, listeners)

\* lines 485 and 529: 1 / (1 + listeners / 1000000)
RarityScore(listeners) == Rat(1000000, 1000000 + listeners)

\* match scores are kept in tenths: avg_match = sum / len
AvgMatch(avg_match) == Rat(avg_match[1], 10 * avg_match[2])

\* lines 507 and 545: score = (frequency * frequency_weight)
\*                           + (avg_match * match_weight) + (rarity_score * rarity_weight)
Score(frequency, avg_match, listeners, rarity_pref) ==
    RatAdd(RatAdd(RatMul(Rat(frequency, 1), FrequencyWeight(rarity_pref)),
                  RatMul(AvgMatch(avg_match), MatchWeight(rarity_pref))),
           RatMul(RarityScore(listeners), RarityWeight(rarity_pref)))

RECURSIVE SumSeq(_)
SumSeq(q) == IF q = <<>> THEN 0 ELSE Head(q) + SumSeq(Tail(q))

\* tag.lower()
LowerTag(tag) ==
    CASE tag = "Metal" -> "metal"
      [] tag = "Rock" -> "rock"
      [] OTHER -> tag

\* lines 451-472: the tag blacklist pass, skipped while the blacklist is empty.
\* data["tags"] is the set of line 392: with top_n > 0 the slice of line 459 raises
\* TypeError ('set' object is not subscriptable) for the first candidate.
BlacklistPass(recs, blacklist, top_n) ==
    LET Keep(data) == blacklist \cap {LowerTag(tag) : tag \in data.tags} = {} IN
    IF blacklist = {} THEN [outcome |-> "ok", kept |-> recs]
    ELSE IF top_n > 0 /\ recs # <<>> THEN [outcome |-> "TypeError", kept |-> <<>>]
    ELSE [outcome |-> "ok", kept |-> SelectSeq(recs, Keep)]

\* the pass under the configuration of the run
BlacklistFilter(recs) ==
    BlacklistPass(recs, REC_TAG_BLACKLIST, REC_TAG_BLACKLIST_TOP_N_TAGS).kept

\* config.py lines 104-107: the weights of the feature-weighted policy, at their
\* defaults 0.3, 0.3, 0.2 and 0.2
SCORING_FREQUENCY_WEIGHT == Rat(3, 10)
SCORING_TAG_OVERLAP_WEIGHT == Rat(3, 10)
SCORING_MATCH_WEIGHT == Rat(2, 10)
SCORING_RARITY_WEIGHT == Rat(2, 10)

\* lines 492-497 and 533-538: the score of the feature-weighted policy
FeatureScore(frequency_score, tag_similarity, avg_match, listeners) ==
    RatAdd(RatAdd(RatMul(frequency_score, SCORING_FREQUENCY_WEIGHT),
                  RatMul(tag_similarity, SCORING_TAG_OVERLAP_WEIGHT)),
           RatAdd(RatMul(AvgMatch(avg_match), SCORING_MATCH_WEIGHT),
                  RatMul(RarityScore(listeners), SCORING_RARITY_WEIGHT)))

\* lines 476-480: frequency_score = len(recommended_by), or with play-frequency
\* weighting the mean play count of the recommenders over 100
FrequencyScore(data, play_frequency_weighting) ==
    IF play_frequency_weighting /\ data.recommender_weights # <<>>
    THEN Rat(SumSeq(data.recommender_weights), Len(data.recommender_weights) * 100)
    ELSE Rat(Len(data.recommended_by), 1)

\* the flags ENABLE_TAG_SIMILARITY and ENABLE_PLAY_FREQUENCY_WEIGHTING of a run
Flags(tag_similarity, play_frequency_weighting) ==
    [tag_similarity |-> tag_similarity, play_frequency_weighting |-> play_frequency_weighting]
ConfigFlags == Flags(ENABLE_TAG_SIMILARITY, ENABLE_PLAY_FREQUENCY_WEIGHTING)

\* lines 474-520: one scored recommendation under the given flags; avg_match =
\* sum / len is kept as the pair <<sum, len>> of the match scores in tenths;
\* tag_similarity is what line 489 computed, 0.0 without ENABLE_TAG_SIMILARITY
ScoreRecUnder(data, rarity_pref, flags, tag_similarity) ==
    LET frequency == Len(data.recommended_by)
        avg_match == <<SumSeq(data.match_scores), Len(data.match_scores)>>
        listeners == ListenersOr1(data.listeners)
    IN  [name |-> data.name,
         score |-> IF flags.tag_similarity \/ flags.play_frequency_weighting
                   THEN FeatureScore(FrequencyScore(data, flags.play_frequency_weighting),
                                     tag_similarity, avg_match, listeners)
                   ELSE Score(frequency, avg_match, listeners, rarity_pref),
         frequency |-> frequency,
         avg_match |-> avg_match,
         recommended_by |-> data.recommended_by,
         listeners |-> listeners,
         tags |-> data.tags,
         rarity_score |-> RarityScore(listeners),
         tag_similarity |-> tag_similarity,
         rarity_pref |-> rarity_pref]

\* lines 474-520 under the configuration of the run
ScoreRec(data, rarity_pref) == ScoreRecUnder(data, rarity_pref, ConfigFlags, RatZero)

\* the sequence q itself, its elements computed once and not at each use
Evaluated(q) == SubSeq(q, 1, Len(q))

\* lines 522 and 547: scored_recommendations.sort(key=lambda x: x["score"], reverse=True).
\* The sort is stable: ahead of a record are the records of a higher score and the
\* records of the same score that were ahead of it before.
SortByScore(recs) ==
    LET n == Len(recs)
        rs == Evaluated(recs)
        Ahead(i) == {j \in 1..n : IF j < i THEN ~RatLess(rs[j].score, rs[i].score)
                                  ELSE RatLess(rs[i].score, rs[j].score)}
        pos == Evaluated([i \in 1..n |-> Cardinality(Ahead(i)) + 1])
    IN  [k \in 1..n |-> rs[CHOOSE i \in 1..n : pos[i] = k]]

\* the list left as the refinement loop leaves it
FinalSortNone(recs) == recs

\* line 547
FinalSort(recs) == SortByScore(recs)

\* lines 527-545: the authoritative listener count replaces the provisional one,
\* and the rarity score and the score are computed again, under the given flags:
\* freq_score = rec["frequency"] in both policies
RefineRecUnder(rec, artist_info, flags) ==
    IF artist_info.present /\ artist_info.listeners > 0
    THEN [rec EXCEPT !.listeners = artist_info.listeners,
                     !.rarity_score = RarityScore(artist_info.listeners),
                     !.score = IF flags.tag_similarity \/ flags.play_frequency_weighting
                               THEN FeatureScore(Rat(rec.frequency, 1), rec.tag_similarity,
                                                 rec.avg_match, artist_info.listeners)
                               ELSE Score(rec.frequency, rec.avg_match,
                                          artist_info.listeners, rec.rarity_pref)]
    ELSE rec

\* lines 527-545 under the configuration of the run
RefineRec(rec, artist_info) == RefineRecUnder(rec, artist_info, ConfigFlags)

\* config.py line 46: the default of RARITY_PREFERENCE
RARITY_PREFERENCE == 9

\* the rarity preferences generate_recommendations is called with
EnginePrefs == {RARITY_PREFERENCE}

\* the loop over the whole list
RefineCountAll == Len(scored)

\* line 525: scored_recommendations[:100]
RefineCount == Min(TOP_REFINE, Len(scored))

\* lines 381-401: the loved artists are submitted to the executor
Submit ==
    /\ UNCHANGED <<rl_vars, file_vars, fn_vars, rank_vars>>
    /\ m_pc = "start"
    /\ t_pc' = [s \in LibNames |-> IF s \in Seeds THEN "queued" ELSE "none"]
    /\ m_pc' = "collect"
    /\ UNCHANGED <<library, cache, t_similar, t_i, t_result, t_fail, t_late,
                   m_order, recommendations, completed, failed, scored, r_i, r_pc, r_late,
                   hist_vars>>

\* lines 405-447: as_completed yields a finished future; one round of the loop
Collect(s) ==
    /\ UNCHANGED <<rl_vars, file_vars, fn_vars, rank_vars>>
    /\ m_pc = "collect"
    /\ s \in Seeds
    /\ s \notin Range(m_order)
    /\ Finished(s)
    /\ m_order' = Append(m_order, s)
    /\ \/ /\ ResultKind(s) = "value"
          /\ completed' = completed + 1
          /\ recommendations' = MergeResult(library, recommendations, s, t_result[s])
          /\ UNCHANGED <<failed, m_pc>>
       \/ /\ ResultKind(s) = "caught"
          /\ failed' = failed + 1
          /\ UNCHANGED <<completed, recommendations, m_pc>>
       \* SystemExit is no Exception: it leaves the loop and the `with` block
       \/ /\ ResultKind(s) = "propagates"
          /\ m_pc' = "unwinding"
          /\ UNCHANGED <<completed, failed, recommendations>>
    /\ UNCHANGED <<library, cache, task_vars, scored, r_i, r_pc, r_late, hist_vars>>

\* ThreadPoolExecutor.__exit__: shutdown(wait=True) lets every work item finish,
\* then the exception leaves generate_recommendations
Unwind ==
    /\ UNCHANGED <<rl_vars, file_vars, fn_vars, rank_vars>>
    /\ m_pc = "unwinding"
    /\ \A s \in Seeds : Finished(s)
    /\ m_pc' = "aborted"
    /\ UNCHANGED <<library, cache, task_vars, m_order, recommendations, completed, failed,
                   scored, r_i, r_pc, r_late, hist_vars>>

\* the loop left after the first future
FirstConsumed == m_order # <<>>

\* lines 400-447: `for future in as_completed(futures)` ends, and the `with` block
\* is left, when every submitted future has been yielded
AllConsumed == Seeds \subseteq Range(m_order)

\* lines 449-522: every future has been consumed; blacklist pass, scoring and the
\* sort by provisional score.  avg_match = sum / len raises ZeroDivisionError on
\* an empty match_scores.
ScoreAll ==
    /\ UNCHANGED <<rl_vars, file_vars, fn_vars>>
    /\ m_pc = "collect"
    /\ AllConsumed
    /\ LET kept == BlacklistFilter(recommendations) IN
       IF \E i \in 1..Len(kept) : kept[i].match_scores = <<>>
       THEN /\ m_pc' = "crashed"
            /\ UNCHANGED <<scored, recommendations, h_provisional>>
       ELSE /\ m_pc' = "refine"
            /\ recommendations' = kept
            /\ \E rarity_pref \in EnginePrefs :
                  scored' = SortByScore([i \in 1..Len(kept) |->
                                            ScoreRec(kept[i], rarity_pref)])
            /\ h_provisional' = scored'
    /\ r_i' = 1
    /\ r_pc' = "check"
    /\ UNCHANGED <<library, cache, task_vars, m_order, completed, failed, r_late, hist_vars,
                   h_lookups>>

\* get_artist_info, lines 186-190, called at line 526 for scored_recommendations[r_i]
InfoCheck ==
    LET key == CacheKey("info", scored[r_i].name) IN
    /\ UNCHANGED <<rl_vars, file_vars, fn_vars>>
    /\ m_pc = "refine"
    /\ r_pc = "check"
    /\ r_i <= RefineCount
    /\ IF key \in DOMAIN cache
         THEN /\ scored' = [scored EXCEPT ![r_i] = RefineRec(@, cache[key])]
              /\ r_i' = r_i + 1
              /\ h_late' = LateReturn(key \in h_failed, key, cache[key])
              /\ h_lookups' = Append(h_lookups, scored[r_i].name)
              /\ UNCHANGED <<r_pc, r_late>>
         ELSE /\ r_pc' = "fetch"
              /\ r_late' = (key \in h_failed)
              /\ UNCHANGED <<scored, r_i, h_late, h_lookups>>
    /\ UNCHANGED <<library, cache, task_vars, m_pc, m_order, recommendations, completed,
                   failed, h_decode, h_fatal, h_failed, h_raced, h_provisional>>

\* get_artist_info, lines 192-212, and lines 527-545 of the refinement loop
InfoFetch ==
    LET key == CacheKey("info", scored[r_i].name) IN
    /\ UNCHANGED <<rl_vars, file_vars, fn_vars>>
    /\ m_pc = "refine"
    /\ r_pc = "fetch"
    /\ \/ \E info \in {NoInfo} \cup {[present |-> TRUE, listeners |-> n] : n \in InfoListeners} :
             /\ cache' = CacheWrite(cache, key, info)
             /\ NoteWrite(key)
             \* NoInfo also stands for the RequestException: data = {}, info = {}
             /\ h_failed' = IF ~info.present THEN h_failed \cup {key} ELSE h_failed
             /\ scored' = [scored EXCEPT ![r_i] = RefineRec(@, info)]
             /\ h_lookups' = Append(h_lookups, scored[r_i].name)
             /\ r_i' = r_i + 1
             /\ r_pc' = "check"
             /\ UNCHANGED <<m_pc, h_decode, h_fatal>>
       \* json.JSONDecodeError: sys.exit(1) on the initiating thread
       \/ /\ m_pc' = "aborted"
          /\ h_decode' = TRUE
          /\ h_fatal' = h_fatal \cup {<<MainCaller, key>>}
          /\ UNCHANGED <<cache, scored, r_i, r_pc, h_failed, h_raced, h_lookups>>
    /\ UNCHANGED <<library, task_vars, m_order, recommendations, completed, failed,
                   r_late, h_late, h_provisional>>

\* lines 547-549: the loop is over; the final sort and the return
Return ==
    /\ UNCHANGED <<rl_vars, file_vars, fn_vars, rank_vars>>
    /\ m_pc = "refine"
    /\ r_pc = "check"
    /\ r_i > RefineCount
    /\ scored' = FinalSort(scored)
    /\ m_pc' = "returned"
    /\ UNCHANGED <<library, cache, task_vars, m_order, recommendations, completed, failed,
                   r_i, r_pc, r_late, hist_vars>>

EmptyCache == [k \in {} |-> <<>>]

\* the cache a LastFmClient starts with: nothing, or what an earlier run stored
InitialCaches ==
    { EmptyCache,
      [k \in {CacheKey("similar", nB)} |->
          << [name |-> nD, match |-> 7, listeners |-> 3, tags |-> <<"rock">>] >>] }

EngInit ==
    /\ library \in Libraries
    /\ cache \in InitialCaches
    /\ t_pc = [s \in LibNames |-> "none"]
    /\ t_similar = [s \in LibNames |-> <<>>]
    /\ t_i = [s \in LibNames |-> 0]
    /\ t_result = [s \in LibNames |-> <<>>]
    /\ t_fail = [s \in LibNames |-> FALSE]
    /\ t_late = [s \in LibNames |-> FALSE]
    /\ m_pc = "start"
    /\ m_order = <<>>
    /\ recommendations = <<>>
    /\ completed = 0
    /\ failed = 0
    /\ scored = <<>>
    /\ r_i = 0
    /\ r_pc = "check"
    /\ r_late = FALSE
    /\ h_decode = FALSE
    /\ h_fatal = {}
    /\ h_failed = {}
    /\ h_raced = {}
    /\ h_lookups = <<>>
    /\ h_provisional = <<>>
    /\ h_late = {}

\* the engine's variables while another specification runs
EngIdle ==
    /\ library = [a \in LibNames |-> StatRare]
    /\ cache = EmptyCache
    /\ t_pc = [s \in LibNames |-> "none"]
    /\ t_similar = [s \in LibNames |-> <<>>]
    /\ t_i = [s \in LibNames |-> 0]
    /\ t_result = [s \in LibNames |-> <<>>]
    /\ t_fail = [s \in LibNames |-> FALSE]
    /\ t_late = [s \in LibNames |-> FALSE]
    /\ m_pc = "idle"
    /\ m_order = <<>>
    /\ recommendations = <<>>
    /\ completed = 0
    /\ failed = 0
    /\ scored = <<>>
    /\ r_i = 0
    /\ r_pc = "check"
    /\ r_late = FALSE
    /\ h_decode = FALSE
    /\ h_fatal = {}
    /\ h_failed = {}
    /\ h_raced = {}
    /\ h_lookups = <<>>
    /\ h_provisional = <<>>
    /\ h_late = {}

EngNext ==
    \/ Submit
    \/ \E s \in LibNames : TaskStart(s)
    \/ \E s \in LibNames : SimCheck(s)
    \/ \E s \in LibNames : SimReq(s)
    \/ \E s \in LibNames : TagCheck(s)
    \/ \E s \in LibNames : TagFetch(s)
    \/ \E s \in LibNames : SimWrite(s)
    \/ \E s \in LibNames : Collect(s)
    \/ Unwind
    \/ ScoreAll
    \/ InfoCheck
    \/ InfoFetch
    \/ Return

----------------------------------------------------------------------------
(***************************************************************************)
(* The cache files.  A JSON document is modelled by what the loaders look  *)
(* at: whether it parses, whether it is an object, and the presence and    *)
(* type of each field they read.  Times are in ticks of 1/TicksPerDay day. *)
(***************************************************************************)
TicksPerDay == 2
MaxShortWaits == 2      \* ticks the clock advances one by one after each long wait
MaxLongWaits == 1       \* waits of a whole expiry window
CACHE_EXPIRY_DAYS == 30
REC_CACHE_EXPIRY_DAYS == 30
RarityPrefs == {7, 8}

LongWaitTicks == REC_CACHE_EXPIRY_DAYS * TicksPerDay

\* the key the metadata calls of this specification look up
LookupKey == CacheKey("similar", nB)

\* kind: "absent" | "malformed" | "array" | "object"
\* ts_kind ("timestamp"): "missing" | "number" | "text" | "iso"
\* data_kind ("data"): "missing" | "number" | "array" | "object"
MetaFile(kind, ts_kind, ts, data_kind, keys) ==
    [kind |-> kind, ts_kind |-> ts_kind, ts |-> ts, data_kind |-> data_kind, keys |-> keys]

NoMetaFile == MetaFile("absent", "missing", 0, "missing", {})

MetaFiles ==
    {NoMetaFile}
    \cup {MetaFile(k, "missing", 0, "missing", {}) : k \in {"malformed", "array"}}
    \cup {MetaFile("object", tk, 0, "object", {LookupKey}) : tk \in {"missing", "number", "text"}}
    \cup {MetaFile("object", "iso", 0, dk, {}) : dk \in {"missing", "number", "array", "object"}}
    \cup {MetaFile("object", "iso", 0, "object", {LookupKey})}

CorruptMeta(file) ==
    \/ file.kind \in {"malformed", "array"}
    \/ file.kind = "object" /\ (file.ts_kind # "iso" \/ file.data_kind # "object")

\* pref_kind ("rarity_preference"): "missing" | "int"
\* recs_kind ("recommendations"): "missing" | "number" | "list"
RecFile(kind, ts_kind, ts, pref_kind, pref, recs_kind) ==
    [kind |-> kind, ts_kind |-> ts_kind, ts |-> ts, pref_kind |-> pref_kind,
     pref |-> pref, recs_kind |-> recs_kind]

NoRecFile == RecFile("absent", "missing", 0, "missing", 0, "missing")

RecFiles ==
    {NoRecFile}
    \cup {RecFile(k, "missing", 0, "missing", 0, "missing") : k \in {"malformed", "array"}}
    \cup {RecFile("object", tk, 0, "int", 7, "list") : tk \in {"missing", "number", "text"}}
    \cup {RecFile("object", "iso", 0, "missing", 0, "list")}
    \cup {RecFile("object", "iso", 0, "int", 7, rk) : rk \in {"missing", "number", "list"}}

CorruptRec(file) ==
    \/ file.kind \in {"malformed", "array"}
    \/ file.kind = "object" /\ (file.ts_kind # "iso" \/ file.pref_kind # "int"
                                 \/ file.recs_kind # "list")

\* line 96: {"timestamp": datetime.now().isoformat(), "data": {}}
FreshCache(time, corrupt) ==
    [built |-> TRUE, ts |-> time, data_kind |-> "object", keys |-> {},
     from_corrupt |-> corrupt]

NoClient ==
    [built |-> FALSE, ts |-> 0, data_kind |-> "object", keys |-> {}, from_corrupt |-> FALSE]

\* LastFmClient._load_cache; from_corrupt is history: the file read was corrupt
LoadCache(file, time) ==
    CASE file.kind = "absent" -> FreshCache(time, FALSE)
      \* json.load raises JSONDecodeError, [].get raises AttributeError: except Exception
      [] file.kind \in {"malformed", "array"} -> FreshCache(time, TRUE)
      \* fromisoformat(5) raises TypeError, fromisoformat("x") ValueError: except Exception
      [] file.kind = "object" /\ file.ts_kind \in {"number", "text"} -> FreshCache(time, TRUE)
      \* cache.get("timestamp", "2000-01-01"): older than any expiry
      [] file.kind = "object" /\ file.ts_kind = "missing" -> FreshCache(time, TRUE)
      [] OTHER ->
           IF time - file.ts < CACHE_EXPIRY_DAYS * TicksPerDay
           THEN [built |-> TRUE, ts |-> file.ts, data_kind |-> file.data_kind,
                 keys |-> file.keys, from_corrupt |-> CorruptMeta(file)]
           ELSE FreshCache(time, CorruptMeta(file))

\* lines 128-130 and 152-154 of a metadata call whose request succeeds
LookupOutcome(c, key) ==
    CASE c.data_kind = "missing" -> "KeyError"      \* self.cache["data"]
      [] c.data_kind = "number" -> "TypeError"      \* cache_key in 5
      [] c.data_kind = "array" -> "TypeError"       \* [][cache_key] = similar
      [] OTHER -> IF key \in c.keys THEN "hit" ELSE "miss"

\* (datetime.now() - cache_time).days
AgeDays(time, ts) == (time - ts) \div TicksPerDay

\* load_recommendations_cache(rarity_pref)
LoadRecommendationsCache(file, time, rarity_pref) ==
    CASE file.kind = "absent" -> "None"
      [] file.kind = "malformed" -> "None"             \* JSONDecodeError
      [] file.kind = "array" -> "TypeError"            \* cache_data["timestamp"] on a list
      [] file.ts_kind = "missing" -> "None"            \* KeyError
      [] file.ts_kind = "number" -> "TypeError"        \* fromisoformat(5)
      [] file.ts_kind = "text" -> "None"               \* ValueError
      [] AgeDays(time, file.ts) > REC_CACHE_EXPIRY_DAYS -> "None"
      [] file.pref_kind = "missing" \/ file.pref # rarity_pref -> "None"
      [] file.recs_kind = "missing" -> "None"          \* KeyError
      [] file.recs_kind = "number" -> "TypeError"      \* len(5)
      [] OTHER -> "list"

NoLoad ==
    [result |-> "none", corrupt |-> FALSE, age |-> 0, same_pref |-> FALSE,
     same_config |-> FALSE]

\* the options, other than the rarity preference, that generate_recommendations
\* reads: here the tag blacklist, unset or set (config.py lines 67-68)
Configs == {[REC_TAG_BLACKLIST |-> b] : b \in {{}, {"metal"}}}
DefaultConfig == [REC_TAG_BLACKLIST |-> REC_TAG_BLACKLIST]

CacheInit ==
    /\ now = 0
    /\ lastfm_cache_file \in MetaFiles
    /\ recommendations_cache_file \in RecFiles
    /\ client_cache = NoClient
    /\ lookup_out = "none"
    /\ load_out = NoLoad
    /\ config = DefaultConfig
    /\ h_saved_config = DefaultConfig

\* the recommendation cache file alone, written by an earlier run under some
\* configuration
RecInit ==
    /\ now = 0
    /\ lastfm_cache_file = NoMetaFile
    /\ recommendations_cache_file \in RecFiles
    /\ client_cache = NoClient
    /\ lookup_out = "none"
    /\ load_out = NoLoad
    /\ config \in Configs
    /\ h_saved_config \in Configs

CacheIdle ==
    /\ now = 0
    /\ lastfm_cache_file = NoMetaFile
    /\ recommendations_cache_file = NoRecFile
    /\ client_cache = NoClient
    /\ lookup_out = "none"
    /\ load_out = NoLoad
    /\ config = DefaultConfig
    /\ h_saved_config = DefaultConfig

\* time passes: one tick
ShortWait ==
    /\ UNCHANGED <<rl_vars, eng_vars, fn_vars>>
    /\ now % LongWaitTicks < MaxShortWaits
    /\ now' = now + 1
    /\ UNCHANGED <<lastfm_cache_file, recommendations_cache_file, client_cache,
                   lookup_out, load_out, config, h_saved_config>>

\* time passes: REC_CACHE_EXPIRY_DAYS days
LongWait ==
    /\ UNCHANGED <<rl_vars, eng_vars, fn_vars>>
    /\ now < MaxLongWaits * LongWaitTicks
    /\ now' = now + LongWaitTicks
    /\ UNCHANGED <<lastfm_cache_file, recommendations_cache_file, client_cache,
                   lookup_out, load_out, config, h_saved_config>>

\* LastFmClient.__init__, line 83: a run of the program builds its client
NewClient ==
    /\ UNCHANGED <<rl_vars, eng_vars, fn_vars>>
    /\ client_cache' = LoadCache(lastfm_cache_file, now)
    /\ lookup_out' = "none"
    /\ UNCHANGED <<now, lastfm_cache_file, recommendations_cache_file, load_out,
                   config, h_saved_config>>

\* a save that stamps the file with the time of the write
SaveTimestampNow(c, time) == time

\* _save_cache, lines 98-102: json.dump(self.cache) writes the timestamp the
\* cache was loaded or created with
SaveTimestamp(c, time) == c.ts

\* a metadata call for LookupKey whose request, on a miss, succeeds
Lookup ==
    LET out == LookupOutcome(client_cache, LookupKey)
        written == [client_cache EXCEPT !.keys = @ \cup {LookupKey}] IN
    /\ UNCHANGED <<rl_vars, eng_vars, fn_vars>>
    /\ client_cache.built
    /\ lookup_out' = out
    /\ IF out = "miss"
         THEN /\ client_cache' = written
              \* _save_cache: json.dump(self.cache)
              /\ lastfm_cache_file' =
                    MetaFile("object", "iso", SaveTimestamp(written, now), "object",
                             written.keys)
         ELSE UNCHANGED <<client_cache, lastfm_cache_file>>
    /\ UNCHANGED <<now, recommendations_cache_file, load_out, config, h_saved_config>>

LoadRecs(rarity_pref) ==
    LET file == recommendations_cache_file IN
    /\ UNCHANGED <<rl_vars, eng_vars, fn_vars>>
    /\ load_out' = [result |-> LoadRecommendationsCache(file, now, rarity_pref),
                    corrupt |-> CorruptRec(file),
                    age |-> IF file.ts_kind = "iso" THEN now - file.ts ELSE 0,
                    same_pref |-> file.pref_kind = "int" /\ file.pref = rarity_pref,
                    same_config |-> h_saved_config = config]
    /\ UNCHANGED <<now, lastfm_cache_file, recommendations_cache_file, client_cache,
                   lookup_out, config, h_saved_config>>

\* save_recommendations_cache(recommendations, loved_artists, rarity_pref)
SaveRecs(rarity_pref) ==
    /\ UNCHANGED <<rl_vars, eng_vars, fn_vars>>
    /\ recommendations_cache_file' = RecFile("object", "iso", now, "int", rarity_pref, "list")
    /\ h_saved_config' = config
    /\ UNCHANGED <<now, lastfm_cache_file, client_cache, lookup_out, load_out, config>>

\* the program is started again after the environment was edited: config.py
\* reads the options anew
EditConfig(c) ==
    /\ UNCHANGED <<rl_vars, eng_vars, fn_vars>>
    /\ c # config
    /\ config' = c
    /\ UNCHANGED <<now, lastfm_cache_file, recommendations_cache_file, client_cache,
                   lookup_out, load_out, h_saved_config>>

CacheNext ==
    \/ ShortWait
    \/ LongWait
    \/ NewClient
    \/ Lookup
    \/ \E p \in RarityPrefs : LoadRecs(p)
    \/ \E p \in RarityPrefs : SaveRecs(p)

\* runs of the program under configurations that change between them
RecNext ==
    \/ ShortWait
    \/ LongWait
    \/ \E p \in RarityPrefs : LoadRecs(p)
    \/ \E p \in RarityPrefs : SaveRecs(p)
    \/ \E c \in Configs : EditConfig(c)

----------------------------------------------------------------------------
(***************************************************************************)
(* The functions applied on their own, to arguments drawn from bounded     *)
(* sets.                                                                   *)
(***************************************************************************)
NoFn == [op |-> "none"]
FnIdle == fn = NoFn

\* more ArtistStats the library parser can produce
StatPlayedDisliked ==
    [play_count |-> 60, track_count |-> 6, loved |-> FALSE, loved_track_count |-> 0,
     disliked_track_count |-> 2, rating |-> 0, last_played |-> 1]
StatLovedAndDisliked ==
    [play_count |-> 1, track_count |-> 3, loved |-> TRUE, loved_track_count |-> 1,
     disliked_track_count |-> 2, rating |-> 0, last_played |-> 1]
StatRated ==
    [play_count |-> 10, track_count |-> 1, loved |-> FALSE, loved_track_count |-> 0,
     disliked_track_count |-> 0, rating |-> 80, last_played |-> 1]

ClassStats ==
    {StatFrequent, StatLovedFlag, StatDisliked, StatRare,
     StatPlayedDisliked, StatLovedAndDisliked, StatRated}

\* library keys are the tracks' Artist strings as they are: "X" and "x" are two keys
nxl == <<"x">>
ClassOrder == <<nN, nX, nxl>>
ClassLibraries == [Range(ClassOrder) -> ClassStats]

\* RecommendationEngine.__init__ and get_loved_artists on one library
Classify ==
    /\ UNCHANGED <<rl_vars, eng_vars, file_vars>>
    /\ fn = NoFn
    /\ \E lib \in ClassLibraries :
          fn' = [op |-> "classify", lib |-> lib,
                 known |-> KnownArtists(lib),
                 disliked |-> DislikedArtists(lib),
                 loved |-> LovedIn(ClassOrder, lib)]

\* the sequences over alphabet of length at most n
RECURSIVE SeqsUpTo(_, _)
SeqsUpTo(alphabet, n) ==
    IF n = 0 THEN {<<>>}
    ELSE LET shorter == SeqsUpTo(alphabet, n - 1)
         IN  shorter \cup {Append(w, c) : w \in shorter, c \in alphabet}

MaxNameLen == 5

\* artist names as Last.fm returns them: two artists, spaces and the one-character
\* separators, and the worded separators in a few fixed names
CollabAlphabet == {"N", "D", " ", "&", ","}
CollabNames ==
    SeqsUpTo(CollabAlphabet, MaxNameLen) \cup
    { <<"N", " ", "f", "e", "a", "t", ".", " ", "D">>,
      <<"N", " ", "F", "e", "a", "t", ".", " ", "D">>,
      <<"D", "f", "e", "a", "t", ".", "N">>,
      <<"D", " ", "f", "t", ".", " ", "N">>,
      <<"D", "f", "t", ".", "N">>,
      <<"N", " ", "f", "e", "a", "t", "u", "r", "i", "n", "g", " ", "D">>,
      <<"N", " ", " ", "&", " ", " ", "D">> }

\* RecommendationEngine._contains_known_artist on one name
ContainsKnown ==
    /\ UNCHANGED <<rl_vars, eng_vars, file_vars>>
    /\ fn = NoFn
    /\ \E lib \in Libraries, name \in CollabNames :
          fn' = [op |-> "contains", name |-> name, known |-> KnownArtists(lib),
                 result |-> ContainsKnownArtist(lib, name)]

\* U+2018, U+2019, U+201C and U+201D, each one character of a name
LSQUO == "lsquo"
RSQUO == "rsquo"
LDQUO == "ldquo"
RDQUO == "rdquo"

QuoteAlphabet == {"N", "n", " ", "'", "\"", RSQUO, LDQUO}
QuoteNames == SeqsUpTo(QuoteAlphabet, MaxNameLen - 1)

\* RecommendationEngine._normalise_artist_name on one name
NormaliseName ==
    /\ UNCHANGED <<rl_vars, eng_vars, file_vars>>
    /\ fn = NoFn
    /\ \E name \in QuoteNames :
          fn' = [op |-> "normalise", name |-> name, key |-> Normalise(name)]

\* lines 504-506: the three weights for one rarity preference
Weights ==
    /\ UNCHANGED <<rl_vars, eng_vars, file_vars>>
    /\ fn = NoFn
    /\ \E p \in RarityPrefRange :
          fn' = [op |-> "weights", rarity_pref |-> p,
                 rarity_weight |-> RarityWeight(p),
                 frequency_weight |-> FrequencyWeight(p),
                 match_weight |-> MatchWeight(p)]

MaxListeners == 12

\* listener counts Last.fm can report: the small ones, and some around and
\* above the 1,000,000 of the rarity formula
ListenerCounts ==
    (0..MaxListeners) \cup {999999, 1000000, 1000001, 2000000, 3000000,
                            12000000, 2000000000}

\* lines 484-485: the listener count and rarity score of one candidate
Rarity ==
    /\ UNCHANGED <<rl_vars, eng_vars, file_vars>>
    /\ fn = NoFn
    /\ \E n \in ListenerCounts :
          fn' = [op |-> "rarity", data_listeners |-> n,
                 listeners |-> ListenersOr1(n),
                 rarity_score |-> RarityScore(ListenersOr1(n))]

\* the candidate map's entry for an artist recommended by seeds with these
\* match scores (lines 437-444)
Candidate(name, seeds, match_scores, listeners) ==
    [NewCandidate(name) EXCEPT !.recommended_by = seeds,
                               !.match_scores = match_scores,
                               !.listeners = listeners]

RankListeners == {0, MaxListeners, 1000000, 3000000, 12000000, 2000000000}
RankMatches == {1, 5, 9}

\* lines 474-522 for two candidates of the same average match, one recommended by
\* two seeds and one by a single seed, in either order of the candidate map
Rank ==
    /\ UNCHANGED <<rl_vars, eng_vars, file_vars>>
    /\ fn = NoFn
    /\ \E p \in RarityPrefRange, m \in RankMatches, d \in {0, 1},
          l1 \in RankListeners, l2 \in RankListeners, two_first \in BOOLEAN :
          LET two == ScoreRec(Candidate(nD, <<nN, nB>>, <<m - d, m + d>>, l2), p)
              one == ScoreRec(Candidate(nX, <<nN>>, <<m>>, l1), p)
          IN  fn' = [op |-> "rank", rarity_pref |-> p,
                     ranking |-> SortByScore(IF two_first THEN <<two, one>>
                                             ELSE <<one, two>>)]

MaxTags == 3
MaxTopN == 2

\* the tag lists of artist.gettoptags answers, most used tag first, without
\* repetition
TagNames == {"rock", "Metal", "pop"}
TagLists ==
    {tl \in SeqsUpTo(TagNames, MaxTags) : Cardinality(Range(tl)) = Len(tl)}

\* lines 437-472 for one candidate whose one seed's answer carried this tag list
Blacklist ==
    /\ UNCHANGED <<rl_vars, eng_vars, file_vars>>
    /\ fn = NoFn
    /\ \E tl \in TagLists, blacklist \in {{}, {"metal"}}, top_n \in 0..MaxTopN :
          LET data == [Candidate(nD, <<nN>>, <<5>>, 3) EXCEPT !.tags = @ \cup Range(tl)]
              pass == BlacklistPass(<<data>>, blacklist, top_n)
          IN  fn' = [op |-> "blacklist", tag_list |-> tl, blacklist |-> blacklist,
                     top_n |-> top_n, outcome |-> pass.outcome,
                     kept |-> {pass.kept[i].name : i \in DOMAIN pass.kept}]

MaxMonths == 1          \* the largest LAST_MONTHS_FILTER
MaxLater == 2           \* days between the first engine's run and the second's

\* ages of the last play, in days, when the library is read: none recorded,
\* today, and the days around each cutoff
PlayAges == {-1, 0} \cup {m * 30 + d : m \in 1..MaxMonths, d \in {-1, 0, 1}}

\* ArtistStats of artists with a loved track, and of two that are never seeds
CutoffStats ==
    {[StatLovedFlag EXCEPT !.last_played = a] : a \in PlayAges} \cup {StatRare, StatDisliked}

CutoffOrder == <<nN, nB>>
CutoffLibraries == [Range(CutoffOrder) -> CutoffStats]

\* RecommendationEngine.__init__ and get_loved_artists of one engine
Triple(order, lib, last_months_filter, later) ==
    [known |-> KnownArtists(lib),
     disliked |-> DislikedArtists(lib),
     loved |-> LovedAt(order, lib, last_months_filter, later)]

\* two engines built from one library under one configuration, the second one
\* run `later` days after the first
ClassifyTwice ==
    /\ UNCHANGED <<rl_vars, eng_vars, file_vars>>
    /\ fn = NoFn
    /\ \E lib \in CutoffLibraries, months \in 0..MaxMonths, later \in 0..MaxLater :
          fn' = [op |-> "classifyTwice", lib |-> lib, last_months_filter |-> months,
                 later |-> later,
                 first |-> Triple(CutoffOrder, lib, months, 0),
                 second |-> Triple(CutoffOrder, lib, months, later)]

MaxKeyLen == 2

\* artist names that differ in case, quotes and spacing
KeyNames == SeqsUpTo({"N", "n", "'", " "}, MaxKeyLen)

Methods == {"similar", "tags", "info"}

\* what a call that missed stores: the result of a request that succeeded or,
\* with ok false, of one that failed at transport level
StoredResult(method, ok) ==
    CASE method = "info" -> IF ok THEN [present |-> TRUE, listeners |-> 3] ELSE NoInfo
      [] method = "tags" -> IF ok THEN <<"rock">> ELSE <<>>
      [] method = "similar" -> <<>>

\* two calls of one operation of a client whose cache starts empty: lines 126-130
\* (160-164, 186-190) of both, and the first call's write at lines 152-153
\* (178-179, 208-209)
KeyCalls ==
    /\ UNCHANGED <<rl_vars, eng_vars, file_vars>>
    /\ fn = NoFn
    /\ \E method \in Methods, first \in KeyNames, second \in KeyNames, ok \in BOOLEAN :
          LET after == CacheWrite(EmptyCache, CacheKey(method, first),
                                  StoredResult(method, ok))
          IN  fn' = [op |-> "keyCalls", method |-> method, first |-> first,
                     second |-> second, ok |-> ok,
                     second_requests |->
                         IF CacheKey(method, second) \in DOMAIN after THEN 0 ELSE 1]

RefinePrefs == {MIN_RARITY_PREFERENCE, RARITY_PREFERENCE, MAX_RARITY_PREFERENCE}

\* play counts of the recommending seeds (library_stats[artist]["play_count"])
SeedPlays == {60, 100, 250}

\* results of calculate_tag_similarity at line 489: tag_profile shares, averaged
TagSimilarities == {RatZero, Rat(1, 4)}

\* listener counts of the artist.getsimilar answer and of the artist.getinfo answer
RefineListeners == {0, 1, 3, 500000, 2000000}

\* lines 437-444 and 474-520 for one candidate, and lines 526-545 for it: scored
\* first with the listener count of artist.getsimilar, then refined with the
\* count of artist.getinfo
Refine ==
    /\ UNCHANGED <<rl_vars, eng_vars, file_vars>>
    /\ fn = NoFn
    /\ \E tag_flag \in BOOLEAN, freq_flag \in BOOLEAN, p \in RefinePrefs,
          seeds \in {<<nN>>, <<nN, nB>>}, plays \in SeedPlays,
          sim \in TagSimilarities, listeners \in RefineListeners,
          info_listeners \in RefineListeners :
          LET flags == Flags(tag_flag, freq_flag)
              data == [Candidate(nD, seeds, [i \in 1..Len(seeds) |-> 7], listeners)
                         EXCEPT !.recommender_weights =
                                   IF freq_flag THEN [i \in 1..Len(seeds) |-> plays]
                                   ELSE <<>>]
              rec == ScoreRecUnder(data, p, flags, IF tag_flag THEN sim ELSE RatZero)
              info == [present |-> TRUE, listeners |-> info_listeners]
          IN  fn' = [op |-> "refine", flags |-> flags, data |-> data,
                     provisional |-> rec, info |-> info,
                     refined |-> RefineRecUnder(rec, info, flags)]

\* one application, in a state where none has been made
FnNext ==
    \/ Refine
    \/ KeyCalls
    \/ ClassifyTwice
    \/ Classify
    \/ ContainsKnown
    \/ NormaliseName
    \/ Weights
    \/ Rarity
    \/ Rank
    \/ Blacklist

(***************************************************************************)
(* The refinement of a long candidate list: the run of lines 449-549 from  *)
(* the state in which the one seed's similar artists, more than the        *)
(* refinement looks up, have been merged.  The similar artists and most of *)
(* their artist.getinfo answers are in the cache file of an earlier run.   *)
(***************************************************************************)
ExtraCandidates == 2
\* the lengths of the candidate list: a short one, and one longer than the
\* refinement looks up
ManySizes == {ExtraCandidates, TOP_REFINE + ExtraCandidates}

DigitChars == <<"0", "1", "2", "3", "4", "5", "6", "7", "8", "9">>

\* the name of the i-th similar artist
ManyName(i) ==
    <<"c", DigitChars[(i \div 100) + 1], DigitChars[((i \div 10) % 10) + 1],
      DigitChars[(i % 10) + 1]>>

\* the cached artist.getsimilar answer: n artists with pairwise different listener
\* counts, in an order that is not the order of their scores
ManySimilar(n) ==
    [i \in 1..n |->
        [name |-> ManyName(i), match |-> IF i % 2 = 0 THEN 7 ELSE 5,
         listeners |-> ((i * 37) % 103) * 1000, tags |-> <<"rock">>]]

\* the similar artists whose artist.getinfo answer is not cached
UncachedInfo == {ManyName(1)}

\* the cached artist.getinfo answers: no listener count for every fourth artist
ManyInfo(i) ==
    [present |-> TRUE, listeners |-> IF i % 4 = 0 THEN 0 ELSE 2000000 + i]

ManyCache(n) ==
    LET keys == {CacheKey("similar", nB)}
                  \cup {CacheKey("tags", ManyName(i)) : i \in 1..n}
                  \cup {CacheKey("info", ManyName(i)) :
                           i \in {j \in 1..n : ManyName(j) \notin UncachedInfo}}
        Index(key) == CHOOSE i \in 1..n : LowerName(ManyName(i)) = key[2]
    IN  [key \in keys |->
            CASE key[1] = "similar" -> ManySimilar(n)
              [] key[1] = "tags" -> <<"rock">>
              [] key[1] = "info" -> ManyInfo(Index(key))]

\* the library whose one loved artist is B
ManyLibrary == [a \in LibNames |-> IF a = nB THEN StatLovedFlag ELSE StatRare]

\* the state before line 449: B's future, answered from the cache, is consumed
ManyInit ==
    /\ \E n \in ManySizes :
          /\ cache = ManyCache(n)
          /\ t_result = [s \in LibNames |-> IF s = nB THEN ManySimilar(n) ELSE <<>>]
          \* lines 416-444 for n artists of different names that pass the filters
          /\ recommendations =
                [i \in 1..n |-> UpdateCandidate(ManyLibrary, NewCandidate(ManyName(i)), nB,
                                                ManySimilar(n)[i])]
    /\ library = ManyLibrary
    /\ t_pc = [s \in LibNames |-> IF s = nB THEN "done" ELSE "none"]
    /\ t_similar = [s \in LibNames |-> <<>>]
    /\ t_i = [s \in LibNames |-> 0]
    /\ t_fail = [s \in LibNames |-> FALSE]
    /\ t_late = [s \in LibNames |-> FALSE]
    /\ m_pc = "collect"
    /\ m_order = <<nB>>
    /\ completed = 1
    /\ failed = 0
    /\ scored = <<>>
    /\ r_i = 0
    /\ r_pc = "check"
    /\ r_late = FALSE
    /\ h_decode = FALSE
    /\ h_fatal = {}
    /\ h_failed = {}
    /\ h_raced = {}
    /\ h_lookups = <<>>
    /\ h_provisional = <<>>
    /\ h_late = {}

ManyNext ==
    \/ ScoreAll
    \/ InfoCheck
    \/ InfoFetch
    \/ Return

Init == RLInit /\ EngInit /\ CacheIdle /\ FnIdle
Next == EngNext
Spec == Init /\ [][Next]_vars

RLSpecInit == RLInit /\ EngIdle /\ CacheIdle /\ FnIdle
RLSpec == RLSpecInit /\ [][RLNext]_vars

\* the steps of a caller inside acquire()
RLAcquire(t) ==
    \/ RLLock(t)
    \/ RLRead(t)
    \/ RLWake(t)
    \/ RLUpdate(t)
    \/ RLRelease(t)

\* Fairness: the clock advances, and the scheduler runs every thread that can take
\* a step; threading.Lock promises no order among the threads waiting for it.
CacheSpecInit == RLInit /\ EngIdle /\ CacheInit /\ FnIdle
CacheSpec == CacheSpecInit /\ [][CacheNext]_vars

RecSpecInit == RLInit /\ EngIdle /\ RecInit /\ FnIdle
RecSpec == RecSpecInit /\ [][RecNext]_vars

FnSpecInit == RLInit /\ EngIdle /\ CacheIdle /\ FnIdle
FnSpec == FnSpecInit /\ [][FnNext]_vars

ManySpecInit == RLInit /\ ManyInit /\ CacheIdle /\ FnIdle
ManySpec == ManySpecInit /\ [][ManyNext]_vars

(***************************************************************************)
(* LastFmClient._make_request, lines 110-111, called by several threads:   *)
(* self.rate_limiter.acquire() and then self.session.get().                *)
(***************************************************************************)
\* line 110: a thread that has begun the request of its previous call enters
\* acquire()
ReqCall(t) ==
    /\ rl_sent[t] = rl_calls[t]
    /\ RLCall(t)

\* line 111: response = self.session.get(...) begins, after acquire() has
\* returned and outside its lock.
ReqSend(t) ==
    /\ UNCHANGED <<eng_vars, file_vars, fn_vars>>
    /\ rl_pc[t] = "idle"
    /\ rl_sent[t] < rl_calls[t]
    /\ rl_sent' = [rl_sent EXCEPT ![t] = @ + 1]
    /\ rl_req_gap' = rl_req_since
    /\ rl_req_since' = 0
    /\ rl_reqs' = Min(rl_reqs + 1, 2)
    /\ UNCHANGED <<rl_lock, rl_since, rl_pc, rl_sleep, rl_calls, rl_grants, rl_gap,
                   rl_waited>>

\* a tick while requests are sent
ReqTick ==
    /\ ClockTick
    /\ rl_req_since' = Min(rl_req_since + 1, MinIntervalTicks)
    /\ UNCHANGED <<rl_sent, rl_reqs, rl_req_gap>>

ReqNext ==
    \/ \E t \in Threads : ReqCall(t)
    \/ \E t \in Threads : RLAcquire(t)
    \/ \E t \in Threads : ReqSend(t)
    \/ ReqTick

ReqSpec == RLSpecInit /\ [][ReqNext]_vars

RLFairSpec ==
    /\ RLSpecInit
    /\ [][RLNext]_vars
    /\ WF_vars(RLTick)
    /\ \A t \in Threads : WF_vars(RLAcquire(t))

----------------------------------------------------------------------------
(***************************************************************************)
(* Claims.                                                                 *)
(***************************************************************************)

\* C1: any two successive grants of RateLimiter.acquire() (updates of
\* last_request_time), by whichever threads, are at least min_interval apart.
C1_GrantsSpaced == rl_grants >= 2 => rl_gap >= MinIntervalTicks

\* a thread had to sleep in its first call because another thread was granted
\* less than min_interval before it
C1_Witness ==
    /\ rl_grants >= 2
    /\ rl_waited
    /\ \E t \in Threads : rl_pc[t] = "release" /\ rl_calls[t] = 1

\* C3 as stated: load_recommendations_cache(p) on a well-formed cache returns the
\* stored list exactly when the cache's age is within REC_CACHE_EXPIRY_DAYS days
\* and the stored rarity preference is p, and None otherwise.
C3_ListIffFreshAndSamePref ==
    (load_out.result # "none" /\ ~load_out.corrupt) =>
        /\ load_out.result \in {"list", "None"}
        /\ load_out.result = "list" <=>
              (load_out.age <= REC_CACHE_EXPIRY_DAYS * TicksPerDay /\ load_out.same_pref)

\* C7 as stated: a corrupted cache file never makes a load or a later lookup raise;
\* the recommendation cache loads as None, the client's cache starts empty and
\* the lookups on it hit or miss.
C7_CorruptionIsAMiss ==
    /\ load_out.corrupt => load_out.result = "None"
    /\ client_cache.from_corrupt =>
          /\ client_cache.data_kind = "object"
          /\ lookup_out \in {"none", "hit", "miss"}
          /\ lookup_out = "none" => client_cache.keys = {}

\* C8: every thread that calls acquire() eventually returns from it.
C8_AcquireReturns ==
    \A t \in Threads : (rl_pc[t] # "idle") ~> (rl_pc[t] = "idle")

\* a caller that has returned from acquire() before is blocked on the lock in its
\* next call, while another thread sleeps holding the lock
C8_Witness ==
    \E t, u \in Threads :
        /\ rl_pc[t] = "lock" /\ rl_calls[t] = 2
        /\ rl_pc[u] = "sleep" /\ rl_lock = u

\* the seeds that produced a value, in the order as_completed yielded them
DoneInOrder == FilterSeq(m_order, {s \in Seeds : t_pc[s] = "done"})

\* the seeds whose lookup succeeded: a value, and no failed request behind it
SucceededInOrder == FilterSeq(m_order, {s \in Seeds : t_pc[s] = "done" /\ ~t_fail[s]})

\* the candidate map built from the results of the seeds of `order`, in that order
RECURSIVE FoldSeeds(_, _)
FoldSeeds(order, recs) ==
    IF order = <<>> THEN recs
    ELSE FoldSeeds(Tail(order),
                   MergeResult(library, recs, Head(order), t_result[Head(order)]))

C4_FailureIsPerSeed ==
    /\ ~h_decode => m_pc \notin {"unwinding", "aborted", "crashed"}
    /\ m_pc \in {"collect", "refine", "returned"} =>
          /\ recommendations = FoldSeeds(SucceededInOrder, <<>>)
          /\ completed = Len(DoneInOrder)
          /\ failed = Len(m_order) - Len(DoneInOrder)
    /\ m_pc \in {"refine", "returned"} => Range(m_order) = Seeds

\* a list was returned, with candidates, after one seed's lookup had raised
C4_Witness ==
    /\ m_pc = "returned"
    /\ recommendations # <<>>
    /\ \E s \in Seeds : t_pc[s] = "raised"

\* no call that began after a failed call for its key had ended issues a request
NoLateRequest ==
    /\ \A s \in Seeds : ~(t_pc[s] \in {"simReq", "tagReq"} /\ t_late[s])
    /\ ~(m_pc = "refine" /\ r_pc = "fetch" /\ r_late)

Exited(caller) ==
    IF caller = MainCaller THEN m_pc = "aborted" ELSE t_pc[caller] = "exit"

\* C6: after an undecodable response, on a worker or on the initiating thread,
\* generate_recommendations never returns a list; the call that met it ends there
\* and the step in which it does writes nothing to the cache.
C6_DecodeErrorAborts ==
    /\ [](h_decode => m_pc # "returned")
    /\ [](\A f \in h_fatal : Exited(f[1]))
    /\ [][h_fatal' # h_fatal => cache' = cache]_vars

\* the run was aborted by a worker's undecodable response after the other seed's
\* lookup had produced its value, and nothing is cached for the key being fetched
C6_Witness ==
    /\ m_pc = "aborted"
    /\ \E f \in h_fatal : f[1] # MainCaller /\ f[2] \notin DOMAIN cache
    /\ \E s \in Seeds : t_pc[s] = "done" /\ t_result[s] # <<>>

\* the (seed, entry) pairs for `name` that passed the filters, among the results
\* as_completed has yielded
Pairs(name) ==
    {p \in Range(DoneInOrder) \X (1..2) :
        /\ p[2] <= Len(t_result[p[1]])
        /\ t_result[p[1]][p[2]].name = name
        /\ PassesFilters(library, name)}

RECURSIVE SumMatches(_)
SumMatches(pairs) ==
    IF pairs = {} THEN 0
    ELSE LET p == CHOOSE q \in pairs : TRUE IN
         t_result[p[1]][p[2]].match + SumMatches(pairs \ {p})

\* C9: every candidate has as many recommended_by as match_scores, at least one,
\* namely one per (seed, entry) pair for its name that passed the filters; its
\* frequency is that number and its avg_match the mean of those match scores.
C9_CountsMatchPairs ==
    /\ m_pc # "crashed"
    /\ \A i \in 1..Len(recommendations) :
          LET data == recommendations[i] IN
          /\ Len(data.recommended_by) = Len(data.match_scores)
          /\ Len(data.recommended_by) >= 1
          /\ Len(data.recommended_by) = Cardinality(Pairs(data.name))
    /\ m_pc \in {"refine", "returned"} =>
          /\ Len(scored) = Len(recommendations)
          /\ \A i \in 1..Len(scored) :
                /\ scored[i].frequency = Cardinality(Pairs(scored[i].name))
                /\ scored[i].avg_match[2] >= 1
                /\ scored[i].avg_match =
                      <<SumMatches(Pairs(scored[i].name)), Cardinality(Pairs(scored[i].name))>>

\* the end-to-end scenario: a candidate recommended by two seeds with match 0.9
\* and 0.7 has frequency 2 and avg_match 1.6 / 2
C9_Witness ==
    /\ m_pc = "returned"
    /\ \E i \in 1..Len(scored) :
          scored[i].frequency = 2 /\ scored[i].avg_match = <<16, 2>>

\* the multiset of the elements of a sequence
BagOf(q) == [x \in Range(q) |-> Cardinality({i \in 1..Len(q) : q[i] = x})]

\* a candidate map without what depends on the order of merging
Projection(recs) ==
    {[name |-> d.name, tags |-> d.tags, frequency |-> Len(d.recommended_by),
      recommended_by |-> BagOf(d.recommended_by),
      match_scores |-> BagOf(d.match_scores)] : d \in Range(recs)}

\* the same results merged in the order of the library instead
CanonicalMap == FoldSeeds(FilterSeq(LibOrder, Range(DoneInOrder)), <<>>)

\* C10: whatever the completion order, the candidate map has the same keys, tag
\* sets, frequencies and multisets of recommended_by and match_scores as the map
\* the same results give in another order.
C10_MergeCommutes == Projection(recommendations) = Projection(CanonicalMap)

\* the completion order differed from the library's and it shows in `listeners`
C10_Witness ==
    /\ m_pc = "returned"
    /\ \E i \in 1..Len(recommendations) : \E j \in 1..Len(CanonicalMap) :
          /\ recommendations[i].name = CanonicalMap[j].name
          /\ recommendations[i].listeners # CanonicalMap[j].listeners

\* C13 as stated: no library artist with a loved track has its normalised name in
\* the disliked set, and every name in the disliked set is the normalised name of
\* an artist with disliked_track_count >= LIB_DISLIKED_MIN_TRACK_COUNT and no
\* loved track.
C13_LovedTrackNeverDisliked ==
    fn.op = "classify" =>
        /\ \A a \in DOMAIN fn.lib :
              fn.lib[a].loved_track_count > 0 => Normalise(a) \notin fn.disliked
        /\ \A k \in fn.disliked : \E a \in DOMAIN fn.lib :
              /\ Normalise(a) = k
              /\ fn.lib[a].disliked_track_count >= LIB_DISLIKED_MIN_TRACK_COUNT
              /\ fn.lib[a].loved_track_count = 0

\* the three conditions of which a loved artist passes at least one
PassesLovedCondition(stats) ==
    \/ stats.loved
    \/ stats.play_count >= LOVED_PLAY_COUNT_THRESHOLD
    \/ (stats.rating >= LOVED_MIN_TRACK_RATING * 20
          /\ stats.play_count >= LOVED_MIN_ARTIST_PLAYS)

\* C14 as stated: with LAST_MONTHS_FILTER = 0, get_loved_artists returns exactly the
\* library artists that pass at least one of the three conditions.
C14_LovedIffCondition ==
    (fn.op = "classify" /\ LAST_MONTHS_FILTER = 0) =>
        Range(fn.loved) = {a \in DOMAIN fn.lib : PassesLovedCondition(fn.lib[a])}

\* C14 as amended: it returns, once each, exactly the library artists that pass at
\* least one of the three conditions and are not disliked (disliked_track_count >=
\* LIB_DISLIKED_MIN_TRACK_COUNT with no loved track).
C14_LovedIffConditionAndNotDisliked ==
    (fn.op = "classify" /\ LAST_MONTHS_FILTER = 0) =>
        /\ Range(fn.loved) =
              {a \in DOMAIN fn.lib :
                  /\ PassesLovedCondition(fn.lib[a])
                  /\ ~ (fn.lib[a].disliked_track_count >= LIB_DISLIKED_MIN_TRACK_COUNT
                          /\ fn.lib[a].loved_track_count = 0)}
        /\ Len(fn.loved) = Cardinality(Range(fn.loved))

\* a library with an artist loved by rating, and a much played artist that is left
\* out because it is disliked
C14_Witness ==
    /\ fn.op = "classify"
    /\ \E a \in Range(fn.loved) : fn.lib[a] = StatRated
    /\ \E a \in DOMAIN fn.lib : fn.lib[a] = StatPlayedDisliked /\ a \notin Range(fn.loved)

\* the first position where sep occurs in s, 0 when it does not occur
FirstAt(s, sep) ==
    LET hits == {i \in 1..Len(s) : IsPrefix(sep, SubSeq(s, i, Len(s)))}
    IN  IF hits = {} THEN 0 ELSE CHOOSE i \in hits : \A j \in hits : i <= j

\* the fragments of s between the occurrences of the separators, the separators
\* taken in the order of the list
RECURSIVE FragmentsOf(_, _)
FragmentsOf(s, seps) ==
    IF seps = <<>> THEN {s}
    ELSE LET i == FirstAt(s, Head(seps))
         IN  IF i = 0 THEN FragmentsOf(s, Tail(seps))
             ELSE FragmentsOf(SubSeq(s, 1, i - 1), Tail(seps)) \cup
                  FragmentsOf(SubSeq(s, i + Len(Head(seps)), Len(s)), seps)

SpacedSeparators ==
    << <<" ", "&", " ">>,
       <<",", " ">>,
       <<" ", "f", "e", "a", "t", ".", " ">>,
       <<" ", "f", "t", ".", " ">>,
       <<" ", "f", "e", "a", "t", "u", "r", "i", "n", "g", " ">> >>

BareSeparators ==
    << <<"&">>,
       <<",">>,
       <<"f", "e", "a", "t", ".">>,
       <<"f", "t", ".">>,
       <<"f", "e", "a", "t", "u", "r", "i", "n", "g">> >>

QuoteChars == {"'", "\"", LSQUO, RSQUO, LDQUO, RDQUO}
OtherCase(c) ==
    CASE c = "N" -> "n"
      [] c = "n" -> "N"
      [] OTHER -> c

\* the names that differ from name in the case of one letter
CaseVariants(name) == {[name EXCEPT ![i] = OtherCase(name[i])] : i \in DOMAIN name}

\* the names that differ from name in the style of one quote character
QuoteVariants(name) ==
    {[name EXCEPT ![i] = q] : i \in {j \in DOMAIN name : name[j] \in QuoteChars},
                              q \in QuoteChars}

\* the names that differ from name in one more space where there is one
SpaceVariants(name) ==
    {SubSeq(name, 1, i) \o <<" ">> \o SubSeq(name, i + 1, Len(name)) :
        i \in {j \in DOMAIN name : name[j] = " "}}

\* C16: normalisation is idempotent, and two names that differ only in letter case,
\* in quote style (straight or curly, single or double) or in the amount of
\* whitespace have the same key.
C16_IdempotentAndStyleBlind ==
    fn.op = "normalise" =>
        /\ Normalise(fn.key) = fn.key
        /\ \A other \in CaseVariants(fn.name) \cup QuoteVariants(fn.name)
                          \cup SpaceVariants(fn.name) :
               Normalise(other) = fn.key

\* C17: under the rarity-preference policy, for every p in 1..15 the three weights
\* sum to exactly 1 and each lies strictly between 0 and 1; the rarity weight is
\* strictly increasing in p and the frequency weight strictly decreasing in p.
C17_WeightsSumToOne ==
    fn.op = "weights" =>
        /\ RatEq(RatAdd(RatAdd(fn.rarity_weight, fn.frequency_weight), fn.match_weight),
                 RatOne)
        /\ \A w \in {fn.rarity_weight, fn.frequency_weight, fn.match_weight} :
              RatLess(RatZero, w) /\ RatLess(w, RatOne)
        /\ \A q \in RarityPrefRange :
              q < fn.rarity_pref =>
                  /\ RatLess(RarityWeight(q), fn.rarity_weight)
                  /\ RatLess(fn.frequency_weight, FrequencyWeight(q))

C17_Witness ==
    /\ fn.op = "weights"
    /\ fn.rarity_pref = MAX_RARITY_PREFERENCE
    /\ RatEq(fn.rarity_weight, Rat(1, 2))
    /\ RatEq(fn.frequency_weight, Rat(35, 100))
    /\ RatEq(fn.match_weight, Rat(15, 100))

C19_TwoSeedsRankFirst ==
    fn.op = "rank" => fn.ranking[1].frequency = 2

\* C19 amended: this holds for every p in 1..11, where the frequency weight is
\* above the rarity weight.  For p in 12..15 a one-seed candidate with at most
\* MaxListeners listeners is ranked above a two-seed candidate of the same
\* average match with 12,000,000 listeners or more.
C19_TwoSeedsRankFirstUpTo11 ==
    fn.op = "rank" =>
        /\ fn.ranking[1].avg_match[1] * fn.ranking[2].avg_match[2] =
               fn.ranking[2].avg_match[1] * fn.ranking[1].avg_match[2]
        /\ fn.rarity_pref <= 11 => fn.ranking[1].frequency = 2
        /\ (/\ fn.rarity_pref >= 12
            /\ \E i \in 1..2 : /\ fn.ranking[i].frequency = 1
                               /\ fn.ranking[i].listeners <= MaxListeners
            /\ \E i \in 1..2 : /\ fn.ranking[i].frequency = 2
                               /\ fn.ranking[i].listeners >= 12000000)
           => fn.ranking[1].frequency = 1

C19_Witness ==
    /\ fn.op = "rank"
    /\ fn.rarity_pref = 11
    /\ fn.ranking[1].frequency = 2
    /\ fn.ranking[1].listeners = 2000000000
    /\ fn.ranking[2].listeners = 1

\* C20: with a non-empty tag blacklist and TOP_N = n > 0, a candidate is dropped if
\* and only if one of the first n tags of its tag list is blacklisted, and the run
\* completes normally; with TOP_N = 0 it is dropped if and only if any of its tags
\* is blacklisted.
C20_DroppedIffBlacklistedInTopN ==
    (fn.op = "blacklist" /\ fn.blacklist # {}) =>
        LET checked == IF fn.top_n > 0 THEN 1..Min(fn.top_n, Len(fn.tag_list))
                       ELSE 1..Len(fn.tag_list)
        IN  /\ fn.outcome = "ok"
            /\ fn.kept = {} <=> \E i \in checked : LowerTag(fn.tag_list[i]) \in fn.blacklist

\* the names of a list of scored recommendations, in its order
NamesOf(recs) == [i \in DOMAIN recs |-> recs[i].name]

\* C12: the list generate_recommendations returns is ordered by final score, no
\* record having a lower score than a record behind it, also after the refinement
\* has changed scores.
C12_ReturnedInScoreOrder ==
    m_pc = "returned" =>
        \A i \in 1..Len(scored), j \in 1..Len(scored) :
            i < j => ~RatLess(scored[i].score, scored[j].score)

\* a run in which the refinement changed the order of the provisional ranking
C12_Witness ==
    /\ m_pc = "returned"
    /\ Len(scored) >= 2
    /\ NamesOf(scored) # NamesOf(h_provisional)
    /\ \E i \in 1..Len(scored), j \in 1..Len(h_provisional) :
          /\ scored[i].name = h_provisional[j].name
          /\ scored[i].score # h_provisional[j].score
    /\ RatLess(scored[2].score, scored[1].score)

\* the record of the artist `name` in a list of scored recommendations
RecOf(recs, name) == recs[CHOOSE i \in DOMAIN recs : recs[i].name = name]

\* C11: for n scored candidates the refinement performs exactly min(100, n)
\* get_artist_info lookups, one for each of the top 100 of the provisional
\* ranking; every candidate outside that top 100 keeps its provisional listeners,
\* rarity_score and score.
C11_RefinesTop100Only ==
    m_pc \in {"refine", "returned"} =>
        /\ Len(h_lookups) <= Min(100, Len(h_provisional))
        /\ m_pc = "returned" => Len(h_lookups) = Min(100, Len(h_provisional))
        /\ \A k \in 1..Len(h_lookups) : h_lookups[k] = h_provisional[k].name
        /\ \A i \in 1..Len(h_provisional) :
              i > 100 =>
                  LET rec == RecOf(scored, h_provisional[i].name)
                  IN  /\ rec.listeners = h_provisional[i].listeners
                      /\ rec.rarity_score = h_provisional[i].rarity_score
                      /\ rec.score = h_provisional[i].score

\* a returned run with more than 100 candidates: a looked-up one has a new score,
\* and an answer with another listener count is cached for one that is not looked up
C11_Witness ==
    /\ m_pc = "returned"
    /\ Len(h_provisional) = TOP_REFINE + ExtraCandidates
    /\ Len(h_lookups) = 100
    /\ RecOf(scored, h_provisional[1].name).score # h_provisional[1].score
    /\ LET key == CacheKey("info", h_provisional[101].name)
       IN  /\ key \in DOMAIN cache
           /\ cache[key].listeners > 0
           /\ cache[key].listeners # h_provisional[101].listeners

\* C21 as stated: two engines built from the same library and configuration
\* yield the same (known, disliked, loved) triple whenever they are run, with or
\* without a LAST_MONTHS_FILTER cutoff.
C21_SameTripleWheneverRun ==
    fn.op = "classifyTwice" => fn.first = fn.second

\* the loved artists whose last play is still inside the cutoff `later` days on
StillRecent(lib, months, later) ==
    {a \in DOMAIN lib :
        \/ months = 0
        \/ lib[a].last_played = -1
        \/ lib[a].last_played + later <= months * 30}

\* C21 as amended: the two engines have the same known and disliked sets whenever
\* they are run, and the same loved list when no cutoff is configured or when
\* they run on the same day; under a cutoff of N months the later engine's loved
\* list is the earlier one's without the artists whose last play has meanwhile
\* fallen more than N * 30 days back.
C21_SameTripleUpToCutoff ==
    fn.op = "classifyTwice" =>
        /\ fn.first.known = fn.second.known
        /\ fn.first.disliked = fn.second.disliked
        /\ (fn.last_months_filter = 0 \/ fn.later = 0) => fn.first.loved = fn.second.loved
        /\ fn.second.loved =
              FilterSeq(fn.first.loved, StillRecent(fn.lib, fn.last_months_filter, fn.later))

\* under a cutoff the second engine, run later, has lost a seed of the first
C21_Witness ==
    /\ fn.op = "classifyTwice"
    /\ fn.last_months_filter > 0
    /\ fn.first.loved # <<>>
    /\ Len(fn.second.loved) < Len(fn.first.loved)

\* C28 as stated: under a cutoff of N > 0 months every artist get_loved_artists
\* returns has a recorded last play, at most N * 30 days old.
C28_SeedsPlayedWithinCutoff ==
    (fn.op = "classifyTwice" /\ fn.last_months_filter > 0) =>
        \A a \in Range(fn.first.loved) :
            /\ fn.lib[a].last_played >= 0
            /\ fn.lib[a].last_played <= fn.last_months_filter * 30

\* what holds instead: no returned artist has a recorded last play older than the
\* cutoff; the artists without a recorded last play are returned
C28_NoSeedOlderThanCutoff ==
    (fn.op = "classifyTwice" /\ fn.last_months_filter > 0) =>
        \A a \in Range(fn.first.loved) :
            fn.lib[a].last_played <= fn.last_months_filter * 30

\* C22 as stated: when an option that affects the ranked list differs between the
\* save of the recommendation cache and a later load of a well-formed cache file,
\* the load returns None.
C22_ConfigChangeInvalidates ==
    (load_out.result # "none" /\ ~load_out.corrupt
        /\ ~(load_out.same_pref /\ load_out.same_config)) => load_out.result = "None"

\* what holds instead: only a different rarity preference makes the load return None
C22_PrefChangeInvalidates ==
    (load_out.result # "none" /\ ~load_out.corrupt /\ ~load_out.same_pref) =>
        load_out.result = "None"

\* C23: scoring starts only after every submitted seed lookup has ended, with a
\* value or with an exception, and its future has been consumed; and the candidate
\* map changes only in a step of the initiating thread's loop over the futures
\* (or in its blacklist pass), in which no worker moves.
C23_JoinBarrier ==
    /\ [](m_pc \in {"refine", "returned", "crashed"} =>
            \A s \in Seeds : Finished(s) /\ s \in Range(m_order))
    /\ [](scored # <<>> => \A s \in Seeds : Finished(s))
    /\ [][recommendations' # recommendations =>
            /\ m_pc = "collect"
            /\ task_vars' = task_vars
            /\ cache' = cache
            /\ (m_order' # m_order \/ m_pc' = "refine")]_vars

\* candidates were scored after two lookups, one that returned a value and one
\* that ended in an exception
C23_Witness ==
    /\ m_pc = "refine"
    /\ scored # <<>>
    /\ \E s \in Seeds : t_pc[s] = "raised"
    /\ \E s \in Seeds : t_pc[s] = "done"

\* C24 as stated: of two calls of one operation with names of the same normalised
\* name, the second finds the first's cache entry and issues no request.
C24_SameNormalisedNameSameEntry ==
    (fn.op = "keyCalls" /\ Normalise(fn.first) = Normalise(fn.second)) =>
        fn.second_requests = 0

\* two names that differ at most in the case of their letters
SameUpToCase(a, b) ==
    /\ Len(a) = Len(b)
    /\ \A i \in 1..Len(a) : LowerChar(a[i]) = LowerChar(b[i])

\* C24 as amended: the entries are keyed by the method and the lower-cased name:
\* the second call finds the first's entry and issues no request exactly when the
\* two names differ at most in letter case.
C24_SameLowerNameSameEntry ==
    fn.op = "keyCalls" =>
        (fn.second_requests = 0 <=> SameUpToCase(fn.first, fn.second))

\* the second call, with another spelling of the name, found the entry a failed
\* first call had stored
C24_Witness ==
    /\ fn.op = "keyCalls"
    /\ fn.first # fn.second
    /\ ~fn.ok
    /\ fn.second_requests = 0

\* C25 as stated: any two successive requests of one client, by whichever
\* threads, begin at least min_interval apart.
C25_RequestsSpaced == rl_reqs >= 2 => rl_req_gap >= MinIntervalTicks

\* the key of the request a worker is about to send, having missed the cache
PendingKey(s) ==
    IF t_pc[s] = "simReq" THEN CacheKey("similar", s)
    ELSE CacheKey("tags", t_similar[s][t_i[s]].name)

\* C26 as stated: of the workers that ask for one uncached key at the same time
\* only one sends a request; so no two workers are at once between their cache
\* miss for one key and the request that follows it.
C26_OneRequestPerKey ==
    \A s1, s2 \in Seeds :
        (s1 # s2 /\ t_pc[s1] \in {"simReq", "tagReq"} /\ t_pc[s2] \in {"simReq", "tagReq"})
            => PendingKey(s1) # PendingKey(s2)

\* some worker has met an undecodable response
WorkerExited == \E f \in h_fatal : f[1] # MainCaller

\* C27 as stated: once a worker has met an undecodable response, no worker sends a
\* further request (leaves the position before its request) and nothing more is
\* written to the cache.
C27_NothingAfterProtocolError ==
    [][WorkerExited =>
         /\ cache' = cache
         /\ \A s \in Seeds : t_pc[s] \in {"simReq", "tagReq"} => t_pc'[s] = t_pc[s]]_vars

\* a step in which LastFmClient.__init__ loads the cache
Construction ==
    /\ client_cache'.built
    /\ lookup_out' = "none"
    /\ (client_cache' # client_cache \/ lookup_out # "none")

\* the file carries a timestamp younger than CACHE_EXPIRY_DAYS
YoungFile ==
    /\ lastfm_cache_file.kind = "object"
    /\ lastfm_cache_file.ts_kind = "iso"
    /\ now - lastfm_cache_file.ts < CACHE_EXPIRY_DAYS * TicksPerDay

\* C29: a client either starts with all the entries and the timestamp of a file
\* younger than CACHE_EXPIRY_DAYS, or with no entry and the timestamp of its
\* construction; a cache write adds its entry and leaves the timestamp, in memory
\* and in the file, as it was.
C29_WholeCacheExpiry ==
    /\ [][Construction =>
             IF YoungFile
             THEN /\ client_cache'.ts = lastfm_cache_file.ts
                  /\ client_cache'.keys = lastfm_cache_file.keys
             ELSE /\ client_cache'.ts = now
                  /\ client_cache'.keys = {}]_vars
    /\ [][(client_cache' # client_cache /\ ~Construction) =>
             /\ client_cache'.ts = client_cache.ts
             /\ client_cache.keys \subseteq client_cache'.keys]_vars
    /\ [][lastfm_cache_file' # lastfm_cache_file =>
             /\ lastfm_cache_file'.ts = client_cache.ts
             /\ lastfm_cache_file'.keys = client_cache'.keys]_vars

\* a client that retained a cache has written an entry some time after the
\* cache was created, and the file still carries the time of creation
C29_Witness ==
    /\ lookup_out = "miss"
    /\ client_cache.ts < now
    /\ lastfm_cache_file.ts = client_cache.ts
    /\ LookupKey \in lastfm_cache_file.keys

\* C30 as stated: under both policies, with or without play-frequency weighting,
\* a candidate whose artist.getinfo listener count equals its provisional count
\* has a refined score equal to its provisional score.
C30_SameListenersSameScore ==
    (fn.op = "refine" /\ fn.info.listeners = fn.provisional.listeners) =>
        RatEq(fn.refined.score, fn.provisional.score)

\* what holds instead: the same without play-frequency weighting
C30_SameScoreWithoutFrequencyWeighting ==
    (fn.op = "refine" /\ fn.info.listeners = fn.provisional.listeners
        /\ ~fn.flags.play_frequency_weighting) =>
        RatEq(fn.refined.score, fn.provisional.score)

====
